---------------------------- MODULE Spec2Model ----------------------------
(***************************************************************************)
(* The in-memory task board of the industrial task application: the App    *)
(* component's state (tasks, personnel, categories, the form and detail    *)
(* dialog flags) and its handlers, with the TaskCard, TaskDetail, TaskForm *)
(* and PersonnelManager components that call them.                         *)
(*                                                                         *)
(* Two next-state relations are given.  Next lets every handler be called  *)
(* with any argument in any order (the store seen as an API: createTask,   *)
(* updateTask, deleteTask, setStatus, createPersonnel, toggleActive).      *)
(* NextUI lets the handlers be called only through the controls that the   *)
(* components render in the current state.                                 *)
(*                                                                         *)
(* Dates are integers counting quarter hours from 4 January 2025 00:00;    *)
(* an undefined date is Absent.  Free text (titles, descriptions, names,   *)
(* categories) is a sequence of one-character strings, cut to its first    *)
(* letters in the seed data; estimatedHours counts half hours.             *)
(***************************************************************************)
EXTENDS Integers, Sequences, FiniteSets, TLC

VARIABLES
  tasks,          \* useState<Task[]>(initialTasks)
  personnel,      \* useState<Personnel[]>(initialPersonnel)
  categories,     \* useState<string[]>(initialCategories)
  showTaskForm,   \* useState(false)
  editingTask,    \* useState<Task | undefined>(): <<>> or <<task>>
  selectedTask,   \* useState<Task | null>(null): <<>> or <<task>>
  showTaskDetail, \* useState(false)
  searchTerm,      \* useState('')
  statusFilter,    \* useState('all')
  priorityFilter,  \* useState('all')
  categoryFilter,  \* useState('all')
  personnelFilter, \* useState('all')
  now,            \* the wall clock read by new Date() / Date.now()
  nextId,         \* number of identifiers generateId has handed out
  steps,          \* number of handler calls made so far (bounds the runs)
  hist,           \* history variable: per task id, what has happened to it
  event,          \* history variable: what the latest event asked and got
  activeTab,      \* useState('dashboard')
  rendered        \* what the latest render left on the screen and in the
                  \* cells of the useMemo hooks of the mounted components

\* The filter criteria
filters == <<searchTerm, statusFilter, priorityFilter, categoryFilter, personnelFilter>>

\* The tab shown and what is rendered
views == <<activeTab, rendered>>

vars == <<tasks, personnel, categories, showTaskForm, editingTask,
          selectedTask, showTaskDetail, filters, now, nextId, steps, hist, event,
          views>>

-----------------------------------------------------------------------------
(* Bounds of the model *)

MaxSteps == 3

MaxUISteps == 5

MaxTicks == 2

MaxNewTasks == 1

MaxRenders == 4

-----------------------------------------------------------------------------
(* Values *)

Absent == 0

Statuses == {"pending", "active", "completed"}

Priorities == {"low", "medium", "high", "urgent"}

\* new Date(2025, 0, day, hour, minute) in quarter hours since 4 January 00:00
DateOf(day, hour, minute) == ((day - 4) * 24 + hour) * 4 + (minute \div 15)

\* The session starts after the last date of the seed data.
StartNow == DateOf(10, 16, 0)

Times == StartNow .. (StartNow + MaxTicks)

\* The free text of the seed data is cut to initials.
initialPersonnel ==
  << [id |-> "1", name |-> <<"C", "M">>, role |-> <<"S">>, department |-> <<"P">>, active |-> TRUE],
     [id |-> "2", name |-> <<"A", "G">>, role |-> <<"T">>, department |-> <<"M">>, active |-> TRUE],
     [id |-> "3", name |-> <<"L", "R">>, role |-> <<"O">>, department |-> <<"P">>, active |-> TRUE],
     [id |-> "4", name |-> <<"M", "L">>, role |-> <<"I">>, department |-> <<"C">>, active |-> TRUE],
     [id |-> "5", name |-> <<"P", "S">>, role |-> <<"T">>, department |-> <<"M">>, active |-> FALSE],
     [id |-> "6", name |-> <<"C", "V">>, role |-> <<"A">>, department |-> <<"C">>, active |-> TRUE] >>

\* The free text of the seed data is cut to its first letters.
initialTasks ==
  << [id |-> "2", title |-> <<"C", "a">>, description |-> <<"C", "t">>,
      status |-> "pending", priority |-> "medium", assignedTo |-> <<"4", "6">>,
      createdAt |-> DateOf(9, 7, 0), activatedAt |-> Absent, completedAt |-> Absent,
      estimatedHours |-> 12, category |-> <<"C", "a">>],
     [id |-> "3", title |-> <<"M", "a">>, description |-> <<"C", "a">>,
      status |-> "completed", priority |-> "urgent", assignedTo |-> <<"2">>,
      createdAt |-> DateOf(7, 6, 0), activatedAt |-> DateOf(7, 8, 0),
      completedAt |-> DateOf(7, 12, 30),
      estimatedHours |-> 6, category |-> <<"M", "a">>],
     [id |-> "4", title |-> <<"C", "a">>, description |-> <<"S", "e">>,
      status |-> "pending", priority |-> "medium", assignedTo |-> <<"1">>,
      createdAt |-> DateOf(10, 14, 0), activatedAt |-> Absent, completedAt |-> Absent,
      estimatedHours |-> 4, category |-> <<"S", "e">>],
     [id |-> "6", title |-> <<"R", "e">>, description |-> <<"I", "n">>,
      status |-> "completed", priority |-> "high", assignedTo |-> <<"2", "5">>,
      createdAt |-> DateOf(5, 9, 0), activatedAt |-> DateOf(5, 10, 0),
      completedAt |-> DateOf(6, 2, 0),
      estimatedHours |-> 24, category |-> <<"M", "a">>],
     [id |-> "7", title |-> <<"C", "o">>, description |-> <<"A", "n">>,
      status |-> "completed", priority |-> "medium", assignedTo |-> <<"4">>,
      createdAt |-> DateOf(4, 7, 0), activatedAt |-> DateOf(4, 8, 30),
      completedAt |-> DateOf(4, 16, 45),
      estimatedHours |-> 12, category |-> <<"C", "a">>] >>

initialCategories == <<<<"M", "a">>, <<"C", "a">>, <<"S", "e">>, <<"L", "o">>, <<"P", "r">>>>

\* generateId(): a string no task carries yet.
NewIds == <<"n1", "n2", "n3">>

generateId == NewIds[nextId + 1]

-----------------------------------------------------------------------------
(* Array helpers *)

Range(s) == {s[i] : i \in DOMAIN s}

\* Array.prototype.includes
Includes(s, x) == \E i \in DOMAIN s : s[i] = x

TaskIds == {tasks[i].id : i \in DOMAIN tasks}

TaskById(id) == CHOOSE t \in Range(tasks) : t.id = id

-----------------------------------------------------------------------------
(* Inputs the handlers are called with *)

\* crypto.randomUUID(): a string no person carries yet (no person is ever removed).
NewPersonIds == <<"u1", "u2", "u3", "u4", "u5", "u6">>

randomUUID == NewPersonIds[Len(personnel) - Len(initialPersonnel) + 1]

\* An id no task and no person carries.
UnknownId == "zz"

\* The task ids the handlers are called with: a pending and a completed task
\* of the seed, the tasks created since, and an unknown id.  The other tasks of
\* the seed stay in the collection and are not operated on.
TaskTargets == {"2", "3"} \cup Range(NewIds) \cup {UnknownId}

\* The person ids the handlers are called with: an active and an inactive
\* person of the seed, the persons added since, and an unknown id.
PersonTargets == {"1", "5"} \cup Range(NewPersonIds) \cup {UnknownId}

\* The tasks a handler can be handed: those of the collection among the targets.
TargetTasks == {task \in Range(tasks) : task.id \in TaskTargets}

PersonIds == {personnel[i].id : i \in DOMAIN personnel}

\* Form data without its status: what a caller passes besides the status.
InputShapes ==
  { [title |-> <<"P", "u">>, description |-> <<>>, priority |-> "low",
     assignedTo |-> <<>>, estimatedHours |-> 1, category |-> <<"L", "o">>],
    [title |-> <<"a", "B">>, description |-> <<"p">>, priority |-> "urgent",
     assignedTo |-> <<"3", "1">>, estimatedHours |-> 5, category |-> <<"E", "m">>] }

\* Omit<Task, 'id' | 'createdAt' | 'activatedAt' | 'completedAt'>
TaskInputs ==
  { [title |-> d.title, description |-> d.description, priority |-> d.priority,
     assignedTo |-> d.assignedTo, estimatedHours |-> d.estimatedHours,
     category |-> d.category, status |-> s] : d \in InputShapes, s \in Statuses }

\* The newPerson state of the add form; " " is a blank.
PersonInputs ==
  { [name |-> <<"J", " ", "R">>, role |-> <<"T">>, department |-> <<"M">>, active |-> TRUE],
    [name |-> <<" ">>, role |-> <<"T">>, department |-> <<"M">>, active |-> TRUE],
    [name |-> <<"J">>, role |-> <<>>, department |-> <<"M">>, active |-> TRUE],
    [name |-> <<"J">>, role |-> <<"T">>, department |-> <<" ", " ">>, active |-> TRUE] }


-----------------------------------------------------------------------------
(* The handlers of App *)

\* { ...a, ...b }: the fields of b replace those of a
Spread(a, b) == [f \in DOMAIN a |-> IF f \in DOMAIN b THEN b[f] ELSE a[f]]

\* NewTask with a fault: the new task is stamped as completed.
NewTask_StampsCompletedAt(taskData, id, t) ==
  [id |-> id, title |-> taskData.title, description |-> taskData.description,
   status |-> taskData.status, priority |-> taskData.priority,
   assignedTo |-> taskData.assignedTo, createdAt |-> t,
   activatedAt |-> Absent, completedAt |-> t,
   estimatedHours |-> taskData.estimatedHours, category |-> taskData.category]

\* The task built by handleTaskSubmit when no task is being edited.
NewTask(taskData, id, t) ==
  [id |-> id, title |-> taskData.title, description |-> taskData.description,
   status |-> taskData.status, priority |-> taskData.priority,
   assignedTo |-> taskData.assignedTo, createdAt |-> t,
   activatedAt |-> Absent, completedAt |-> Absent,
   estimatedHours |-> taskData.estimatedHours, category |-> taskData.category]

\* EditedTask with a fault: the edit stamps the task anew.
EditedTask_Restamped(task, taskData) ==
  [Spread(task, taskData) EXCEPT !.createdAt = now]

\* EditedTask with a fault: the task is built again from the form data, and
\* its lifecycle timestamps are lost.
EditedTask_Rebuilt(task, taskData) ==
  [id |-> task.id, title |-> taskData.title, description |-> taskData.description,
   status |-> taskData.status, priority |-> taskData.priority,
   assignedTo |-> taskData.assignedTo, createdAt |-> task.createdAt,
   activatedAt |-> Absent, completedAt |-> Absent,
   estimatedHours |-> taskData.estimatedHours, category |-> taskData.category]

\* The task an edit leaves: { ...task, ...taskData }
EditedTask(task, taskData) == Spread(task, taskData)

\* handleTaskSubmit with a fault: the category is appended without looking it
\* up in the registry.
handleTaskSubmit_AppendsUnchecked(taskData) ==
  /\ IF editingTask # <<>>
       THEN /\ tasks' = [i \in DOMAIN tasks |->
                            IF tasks[i].id = editingTask[1].id
                              THEN EditedTask(tasks[i], taskData) ELSE tasks[i]]
            /\ nextId' = nextId
       ELSE /\ tasks' = Append(tasks, NewTask(taskData, generateId, now))
            /\ nextId' = nextId + 1
  /\ categories' = Append(categories, taskData.category)
  /\ showTaskForm' = FALSE
  /\ editingTask' = <<>>
  /\ UNCHANGED <<personnel, selectedTask, showTaskDetail, now>>

handleTaskSubmit(taskData) ==
  /\ IF editingTask # <<>>
       THEN /\ tasks' = [i \in DOMAIN tasks |->
                            IF tasks[i].id = editingTask[1].id
                              THEN EditedTask(tasks[i], taskData) ELSE tasks[i]]
            /\ nextId' = nextId
       ELSE /\ tasks' = Append(tasks, NewTask(taskData, generateId, now))
            /\ nextId' = nextId + 1
  /\ categories' = IF ~Includes(categories, taskData.category)
                     THEN Append(categories, taskData.category)
                     ELSE categories
  /\ showTaskForm' = FALSE
  /\ editingTask' = <<>>
  /\ UNCHANGED <<personnel, selectedTask, showTaskDetail, now>>

\* StatusUpdates with a fault: every activation stamps activatedAt.
StatusUpdates_StampsEveryActivation(task, newStatus, t) ==
  IF newStatus = "active"
    THEN [status |-> newStatus, activatedAt |-> t]
  ELSE IF newStatus = "completed"
    THEN [status |-> newStatus, completedAt |-> t]
  ELSE IF newStatus = "pending" /\ task.status = "active"
    THEN [status |-> newStatus, activatedAt |-> Absent]
  ELSE [status |-> newStatus]

\* StatusUpdates with a fault: an activation clears completedAt.
StatusUpdates_ActivationClearsCompletedAt(task, newStatus, t) ==
  IF newStatus = "active" /\ task.status = "pending"
    THEN [status |-> newStatus, activatedAt |-> t]
  ELSE IF newStatus = "active"
    THEN [status |-> newStatus, completedAt |-> Absent]
  ELSE IF newStatus = "completed"
    THEN [status |-> newStatus, completedAt |-> t]
  ELSE IF newStatus = "pending" /\ task.status = "active"
    THEN [status |-> newStatus, activatedAt |-> Absent]
  ELSE [status |-> newStatus]

\* StatusUpdates with a fault: a pause keeps activatedAt.
StatusUpdates_PauseKeepsActivatedAt(task, newStatus, t) ==
  IF newStatus = "active" /\ task.status = "pending"
    THEN [status |-> newStatus, activatedAt |-> t]
  ELSE IF newStatus = "completed"
    THEN [status |-> newStatus, completedAt |-> t]
  ELSE [status |-> newStatus]

\* StatusUpdates with a fault: completedAt is stamped only from active.
StatusUpdates_CompletesOnlyFromActive(task, newStatus, t) ==
  IF newStatus = "active" /\ task.status = "pending"
    THEN [status |-> newStatus, activatedAt |-> t]
  ELSE IF newStatus = "completed" /\ task.status = "active"
    THEN [status |-> newStatus, completedAt |-> t]
  ELSE IF newStatus = "pending" /\ task.status = "active"
    THEN [status |-> newStatus, activatedAt |-> Absent]
  ELSE [status |-> newStatus]

\* StatusUpdates with a fault: activatedAt is cleared on the way back from
\* completed instead of on a pause.
StatusUpdates_ClearsFromCompleted(task, newStatus, t) ==
  IF newStatus = "active" /\ task.status = "pending"
    THEN [status |-> newStatus, activatedAt |-> t]
  ELSE IF newStatus = "completed"
    THEN [status |-> newStatus, completedAt |-> t]
  ELSE IF newStatus = "pending" /\ task.status = "completed"
    THEN [status |-> newStatus, activatedAt |-> Absent]
  ELSE [status |-> newStatus]

\* StatusUpdates with a fault: a status out of completed is discarded.
StatusUpdates_DiscardsOutOfCompleted(task, newStatus, t) ==
  IF newStatus = "active" /\ task.status = "pending"
    THEN [status |-> newStatus, activatedAt |-> t]
  ELSE IF newStatus = "completed"
    THEN [status |-> newStatus, completedAt |-> t]
  ELSE IF newStatus = "pending" /\ task.status = "active"
    THEN [status |-> newStatus, activatedAt |-> Absent]
  ELSE IF task.status = "completed"
    THEN <<>>
  ELSE [status |-> newStatus]

\* StatusUpdates with a fault: the first activation time is kept for good.
StatusUpdates_KeepsFirstActivation(task, newStatus, t) ==
  IF newStatus = "active" /\ task.status = "pending"
    THEN [status |-> newStatus,
          activatedAt |-> IF task.activatedAt # Absent THEN task.activatedAt ELSE t]
  ELSE IF newStatus = "completed"
    THEN [status |-> newStatus, completedAt |-> t]
  ELSE [status |-> newStatus]

\* StatusUpdates with a fault: a completion time once stamped is kept.
StatusUpdates_KeepsFirstCompletion(task, newStatus, t) ==
  IF newStatus = "active" /\ task.status = "pending"
    THEN [status |-> newStatus, activatedAt |-> t]
  ELSE IF newStatus = "completed"
    THEN [status |-> newStatus,
          completedAt |-> IF task.completedAt # Absent THEN task.completedAt ELSE t]
  ELSE IF newStatus = "pending" /\ task.status = "active"
    THEN [status |-> newStatus, activatedAt |-> Absent]
  ELSE [status |-> newStatus]

\* The `updates` object of handleStatusChange.
StatusUpdates(task, newStatus, t) ==
  IF newStatus = "active" /\ task.status = "pending"
    THEN [status |-> newStatus, activatedAt |-> t]
  ELSE IF newStatus = "completed"
    THEN [status |-> newStatus, completedAt |-> t]
  ELSE IF newStatus = "pending" /\ task.status = "active"
    THEN [status |-> newStatus, activatedAt |-> Absent]
  ELSE [status |-> newStatus]

\* The updater handleStatusChange passes to setTasks.
StatusChanged(prev, taskId, newStatus, t) ==
  [i \in DOMAIN prev |->
     IF prev[i].id = taskId
       THEN Spread(prev[i], StatusUpdates(prev[i], newStatus, t))
       ELSE prev[i]]

handleStatusChange(taskId, newStatus) ==
  /\ tasks' = StatusChanged(tasks, taskId, newStatus, now)
  /\ UNCHANGED <<personnel, categories, showTaskForm, editingTask,
                 selectedTask, showTaskDetail, now, nextId>>

handleEditTask(task) ==
  /\ editingTask' = <<task>>
  /\ showTaskForm' = TRUE
  /\ showTaskDetail' = FALSE
  /\ UNCHANGED <<tasks, personnel, categories, selectedTask, now, nextId>>

\* Deleted with a fault: the last task is moved into the place of the one
\* removed.
Deleted_SwapRemove(prev, taskId) ==
  IF \A i \in DOMAIN prev : prev[i].id # taskId THEN prev
  ELSE LET at == CHOOSE i \in DOMAIN prev : prev[i].id = taskId
       IN  [j \in 1 .. (Len(prev) - 1) |-> IF j = at THEN prev[Len(prev)] ELSE prev[j]]

\* The updater handleDeleteTask passes to setTasks.
Deleted(prev, taskId) == SelectSeq(prev, LAMBDA task : task.id # taskId)

\* handleDeleteTask with a fault: the categories no task carries any more are
\* dropped from the registry.
handleDeleteTask_PrunesCategories(taskId) ==
  /\ tasks' = Deleted(tasks, taskId)
  /\ categories' = SelectSeq(categories,
                             LAMBDA c : \E i \in DOMAIN tasks :
                                          tasks[i].id # taskId /\ tasks[i].category = c)
  /\ IF selectedTask # <<>> /\ selectedTask[1].id = taskId
       THEN showTaskDetail' = FALSE /\ selectedTask' = <<>>
       ELSE UNCHANGED <<showTaskDetail, selectedTask>>
  /\ UNCHANGED <<personnel, showTaskForm, editingTask, now, nextId>>

handleDeleteTask(taskId) ==
  /\ tasks' = Deleted(tasks, taskId)
  /\ IF selectedTask # <<>> /\ selectedTask[1].id = taskId
       THEN showTaskDetail' = FALSE /\ selectedTask' = <<>>
       ELSE UNCHANGED <<showTaskDetail, selectedTask>>
  /\ UNCHANGED <<personnel, categories, showTaskForm, editingTask, now, nextId>>

handleViewTaskDetails(task) ==
  /\ selectedTask' = <<task>>
  /\ showTaskDetail' = TRUE
  /\ UNCHANGED <<tasks, personnel, categories, showTaskForm, editingTask, now, nextId>>

\* onCancel of the TaskForm
cancelTaskForm ==
  /\ showTaskForm' = FALSE
  /\ editingTask' = <<>>
  /\ UNCHANGED <<tasks, personnel, categories, selectedTask, showTaskDetail, now, nextId>>

\* onClick of the "Nueva Tarea" button
openTaskForm ==
  /\ showTaskForm' = TRUE
  /\ UNCHANGED <<tasks, personnel, categories, editingTask, selectedTask,
                 showTaskDetail, now, nextId>>

\* onClose of the TaskDetail dialog
closeTaskDetail ==
  /\ showTaskDetail' = FALSE
  /\ UNCHANGED <<tasks, personnel, categories, showTaskForm, editingTask,
                 selectedTask, now, nextId>>

-----------------------------------------------------------------------------
(* The filtered view of App.  A criteria record holds the five filter values. *)

\* 'all' as a text
AllText == <<"a", "l", "l">>

\* The filter state as mounted
NoFilters ==
  /\ searchTerm = <<>>
  /\ statusFilter = "all"
  /\ priorityFilter = "all"
  /\ categoryFilter = AllText
  /\ personnelFilter = "all"

LowerOf ==
  [c \in {"A", "B", "C", "E", "I", "J", "L", "M", "O", "P", "R", "S", "T", "U"} |->
     CASE c = "A" -> "a" [] c = "B" -> "b" [] c = "C" -> "c" [] c = "E" -> "e"
       [] c = "I" -> "i" [] c = "J" -> "j" [] c = "L" -> "l" [] c = "M" -> "m"
       [] c = "O" -> "o" [] c = "P" -> "p" [] c = "R" -> "r" [] c = "S" -> "s"
       [] c = "T" -> "t" [] c = "U" -> "u"]

\* String.prototype.toLowerCase on the letters of the model
toLowerCase(s) == [i \in DOMAIN s |-> IF s[i] \in DOMAIN LowerOf THEN LowerOf[s[i]] ELSE s[i]]

\* String.prototype.includes: searchString occurs in s
StringIncludes(s, searchString) ==
  \E at \in 0 .. (Len(s) - Len(searchString)) :
    SubSeq(s, at + 1, at + Len(searchString)) = searchString

\* Passes with a fault: the title and the description are searched as written.
Passes_AsWritten(task, criteria) ==
  LET searchLower == toLowerCase(criteria.searchTerm)
  IN  IF criteria.searchTerm # <<>>
           /\ ~(\/ StringIncludes(task.title, searchLower)
                \/ StringIncludes(task.description, searchLower))
        THEN FALSE
      ELSE IF criteria.statusFilter # "all" /\ task.status # criteria.statusFilter
        THEN FALSE
      ELSE IF criteria.priorityFilter # "all" /\ task.priority # criteria.priorityFilter
        THEN FALSE
      ELSE IF criteria.categoryFilter # AllText /\ task.category # criteria.categoryFilter
        THEN FALSE
      ELSE IF criteria.personnelFilter # "all"
        THEN IF criteria.personnelFilter = "unassigned" /\ Len(task.assignedTo) > 0
               THEN FALSE
             ELSE IF criteria.personnelFilter # "unassigned"
                       /\ ~Includes(task.assignedTo, criteria.personnelFilter)
               THEN FALSE
             ELSE TRUE
      ELSE TRUE

\* The callback filteredTasks passes to tasks.filter
Passes(task, criteria) ==
  LET searchLower == toLowerCase(criteria.searchTerm)
  IN  IF criteria.searchTerm # <<>>
           /\ ~(\/ StringIncludes(toLowerCase(task.title), searchLower)
                \/ StringIncludes(toLowerCase(task.description), searchLower))
        THEN FALSE
      ELSE IF criteria.statusFilter # "all" /\ task.status # criteria.statusFilter
        THEN FALSE
      ELSE IF criteria.priorityFilter # "all" /\ task.priority # criteria.priorityFilter
        THEN FALSE
      ELSE IF criteria.categoryFilter # AllText /\ task.category # criteria.categoryFilter
        THEN FALSE
      ELSE IF criteria.personnelFilter # "all"
        THEN IF criteria.personnelFilter = "unassigned" /\ Len(task.assignedTo) > 0
               THEN FALSE
             ELSE IF criteria.personnelFilter # "unassigned"
                       /\ ~Includes(task.assignedTo, criteria.personnelFilter)
               THEN FALSE
             ELSE TRUE
      ELSE TRUE

\* Filtered with a fault: the first match is left out.
Filtered_WithoutFirstMatch(ts, criteria) ==
  LET matches == SelectSeq(ts, LAMBDA task : Passes(task, criteria))
  IN  IF matches = <<>> THEN <<>> ELSE Tail(matches)

\* The body of the filteredTasks memo, on a task list and a criteria record
Filtered(ts, criteria) ==
  IF Len(ts) = 0 THEN <<>>
  ELSE SelectSeq(ts, LAMBDA task : Passes(task, criteria))

\* The criteria record of the filter state
Criteria ==
  [searchTerm |-> searchTerm, statusFilter |-> statusFilter,
   priorityFilter |-> priorityFilter, categoryFilter |-> categoryFilter,
   personnelFilter |-> personnelFilter]

filteredTasks == Filtered(tasks, Criteria)

activeFiltersCount ==
  Cardinality({k \in 1 .. 4 :
                 <<statusFilter # "all", priorityFilter # "all",
                   categoryFilter # AllText, personnelFilter # "all">>[k]})

clearFilters ==
  /\ statusFilter' = "all"
  /\ priorityFilter' = "all"
  /\ categoryFilter' = AllText
  /\ personnelFilter' = "all"
  /\ searchTerm' = <<>>
  /\ UNCHANGED <<tasks, personnel, categories, showTaskForm, editingTask,
                 selectedTask, showTaskDetail, now, nextId>>

-----------------------------------------------------------------------------
(* The Dashboard component.  A number that need not be an integer is the     *)
(* fraction num / den of two integers, den > 0; the arithmetic is exact.     *)

\* The number n
Number(n) == [num |-> n, den |-> 1]

\* a / b for integers a and b > 0
Divide(a, b) == [num |-> a, den |-> b]

\* q * n for a number q and an integer n
Multiply(q, n) == [num |-> q.num * n, den |-> q.den]

\* Math.round of a number that is not negative: halves go up
MathRound(q) == (2 * q.num + q.den) \div (2 * q.den)

\* stats with a fault: the completion rate is left as a fraction of one.
stats_RateAsFraction ==
  LET totalTasks == Len(tasks)
      pendingTasks == Len(SelectSeq(tasks, LAMBDA t : t.status = "pending"))
      activeTasks == Len(SelectSeq(tasks, LAMBDA t : t.status = "active"))
      completedTasks == Len(SelectSeq(tasks, LAMBDA t : t.status = "completed"))
      activePersonnel == Len(SelectSeq(personnel, LAMBDA p : p.active))
      urgentTasks == Len(SelectSeq(tasks, LAMBDA t :
                           t.priority = "urgent" /\ t.status # "completed"))
      completionRate == IF totalTasks > 0
                          THEN Divide(completedTasks, totalTasks)
                          ELSE Number(0)
  IN  [totalTasks |-> totalTasks, pendingTasks |-> pendingTasks,
       activeTasks |-> activeTasks, completedTasks |-> completedTasks,
       activePersonnel |-> activePersonnel, urgentTasks |-> urgentTasks,
       completionRate |-> completionRate]

\* The stats memo
stats ==
  LET totalTasks == Len(tasks)
      pendingTasks == Len(SelectSeq(tasks, LAMBDA t : t.status = "pending"))
      activeTasks == Len(SelectSeq(tasks, LAMBDA t : t.status = "active"))
      completedTasks == Len(SelectSeq(tasks, LAMBDA t : t.status = "completed"))
      activePersonnel == Len(SelectSeq(personnel, LAMBDA p : p.active))
      urgentTasks == Len(SelectSeq(tasks, LAMBDA t :
                           t.priority = "urgent" /\ t.status # "completed"))
      completionRate == IF totalTasks > 0
                          THEN Multiply(Divide(completedTasks, totalTasks), 100)
                          ELSE Number(0)
  IN  [totalTasks |-> totalTasks, pendingTasks |-> pendingTasks,
       activeTasks |-> activeTasks, completedTasks |-> completedTasks,
       activePersonnel |-> activePersonnel, urgentTasks |-> urgentTasks,
       completionRate |-> completionRate]

\* efficiency with a fault: the percentage is cut to its integer part.
efficiency_Truncated ==
  IF stats.activeTasks > 0
    THEN (100 * stats.completedTasks) \div (stats.completedTasks + stats.activeTasks)
    ELSE 100

\* The efficiency of the metrics memo
efficiency ==
  IF stats.activeTasks > 0
    THEN MathRound(Multiply(Divide(stats.completedTasks,
                                   stats.completedTasks + stats.activeTasks), 100))
    ELSE 100

-----------------------------------------------------------------------------
(* The handlers of PersonnelManager *)

IsBlank(c) == c = " "

\* String.prototype.trim on a sequence of characters
RECURSIVE TrimStart(_)
TrimStart(s) == IF s # <<>> /\ IsBlank(Head(s)) THEN TrimStart(Tail(s)) ELSE s

RECURSIVE TrimEnd(_)
TrimEnd(s) ==
  IF s # <<>> /\ IsBlank(s[Len(s)]) THEN TrimEnd(SubSeq(s, 1, Len(s) - 1)) ELSE s

Trim(s) == TrimEnd(TrimStart(s))

\* handleAddPerson with a fault: role and department are checked as typed.
handleAddPerson_TrimsNameOnly(newPerson) ==
  /\ IF Trim(newPerson.name) = <<>> \/ newPerson.role = <<>>
        \/ newPerson.department = <<>>
       THEN personnel' = personnel
       ELSE personnel' = Append(personnel,
              [id |-> randomUUID, name |-> newPerson.name, role |-> newPerson.role,
               department |-> newPerson.department, active |-> newPerson.active])
  /\ UNCHANGED <<tasks, categories, showTaskForm, editingTask, selectedTask,
                 showTaskDetail, now, nextId>>

\* The check handleAddPerson makes of its input before anything else.
AddPersonReturnsEarly(newPerson) ==
  Trim(newPerson.name) = <<>> \/ Trim(newPerson.role) = <<>>
    \/ Trim(newPerson.department) = <<>>

handleAddPerson(newPerson) ==
  /\ IF AddPersonReturnsEarly(newPerson)
       THEN personnel' = personnel
       ELSE personnel' = Append(personnel,
              [id |-> randomUUID, name |-> newPerson.name, role |-> newPerson.role,
               department |-> newPerson.department, active |-> newPerson.active])
  /\ UNCHANGED <<tasks, categories, showTaskForm, editingTask, selectedTask,
                 showTaskDetail, now, nextId>>

\* Toggled with a fault: the person is set inactive.
Toggled_Deactivated(prev, personId) ==
  [i \in DOMAIN prev |->
     IF prev[i].id = personId THEN [prev[i] EXCEPT !.active = FALSE] ELSE prev[i]]

\* The collection handleToggleActive passes to onPersonnelUpdate.
Toggled(prev, personId) ==
  [i \in DOMAIN prev |->
     IF prev[i].id = personId THEN [prev[i] EXCEPT !.active = ~prev[i].active]
     ELSE prev[i]]

handleToggleActive(personId) ==
  /\ personnel' = Toggled(personnel, personId)
  /\ UNCHANGED <<tasks, categories, showTaskForm, editingTask, selectedTask,
                 showTaskDetail, now, nextId>>

-----------------------------------------------------------------------------
(* The TaskForm component *)

\* The initial formData; task is <<>> (a new task) or <<task>> (an edit).
InitialFormData(task, cats) ==
  IF task = <<>>
    THEN [title |-> <<>>, description |-> <<>>, priority |-> "medium",
          assignedTo |-> <<>>, estimatedHours |-> 2,
          category |-> IF cats # <<>> THEN cats[1] ELSE <<>>,
          status |-> "pending"]
    ELSE [title |-> task[1].title, description |-> task[1].description,
          priority |-> task[1].priority, assignedTo |-> task[1].assignedTo,
          estimatedHours |-> IF task[1].estimatedHours = 0 THEN 2
                             ELSE task[1].estimatedHours,
          category |-> IF task[1].category # <<>> THEN task[1].category
                       ELSE IF cats # <<>> THEN cats[1] ELSE <<>>,
          status |-> task[1].status]

handlePersonnelToggle(formData, personnelId, checked) ==
  [formData EXCEPT !.assignedTo =
     IF checked THEN Append(formData.assignedTo, personnelId)
     ELSE SelectSeq(formData.assignedTo, LAMBDA id : id # personnelId)]

\* Clicking the check box of a person: onCheckedChange gets the negation of
\* the state shown, which is formData.assignedTo.includes(person.id).
RECURSIVE Clicked(_, _)
Clicked(formData, clicks) ==
  IF clicks = <<>> THEN formData
  ELSE Clicked(handlePersonnelToggle(formData, Head(clicks),
                                     ~Includes(formData.assignedTo, Head(clicks))),
               Tail(clicks))

\* ActivePersonIds with a fault: every person has a check box.
ActivePersonIds_Everyone == {personnel[i].id : i \in DOMAIN personnel}

\* The check boxes rendered: personnel.filter(p => p.active)
ActivePersonIds == {personnel[i].id : i \in {j \in DOMAIN personnel : personnel[j].active}}

\* What the user does to the form before submitting it: the text, priority and
\* hours typed (typed: <<>> or <<shape>>), the category picked in the select
\* (picked: <<>> or <<category>>), the "Nueva" toggle and the new category
\* typed, and the check boxes clicked.
FormFills ==
  { [typed |-> <<>>, picked |-> <<>>, showNewCategory |-> FALSE,
     newCategory |-> <<>>, clicks |-> <<>>],
    [typed |-> <<[title |-> <<"P", "u">>, description |-> <<>>, priority |-> "low",
                  estimatedHours |-> 1]>>,
     picked |-> <<<<"L", "o">>>>, showNewCategory |-> FALSE,
     newCategory |-> <<>>, clicks |-> <<"3">>],
    [typed |-> <<[title |-> <<"a", "B">>, description |-> <<"p">>, priority |-> "urgent",
                  estimatedHours |-> 5]>>,
     picked |-> <<>>, showNewCategory |-> TRUE,
     newCategory |-> <<" ", "E", "m">>, clicks |-> <<"4", "1">>],
    [typed |-> <<[title |-> <<"P", "u">>, description |-> <<"p">>, priority |-> "high",
                  estimatedHours |-> 1]>>,
     picked |-> <<>>, showNewCategory |-> TRUE,
     newCategory |-> <<" ">>, clicks |-> <<"2", "2">>],
    [typed |-> <<[title |-> <<"P", "u">>, description |-> <<>>, priority |-> "medium",
                  estimatedHours |-> 2]>>,
     picked |-> <<>>, showNewCategory |-> FALSE,
     newCategory |-> <<>>, clicks |-> <<"5", "3", "5", "5">>] }

\* The fill is possible: the select offers the categories known, and only the
\* active personnel have a check box.
CanFill(fill) ==
  /\ fill.picked # <<>> => Includes(categories, fill.picked[1])
  /\ Range(fill.clicks) \subseteq ActivePersonIds

\* formData after the user's changes.
Filled(formData, fill) ==
  LET typed == IF fill.typed = <<>> THEN formData
               ELSE [formData EXCEPT !.title = fill.typed[1].title,
                                     !.description = fill.typed[1].description,
                                     !.priority = fill.typed[1].priority,
                                     !.estimatedHours = fill.typed[1].estimatedHours]
      picked == IF fill.picked = <<>> THEN typed
                ELSE [typed EXCEPT !.category = fill.picked[1]]
  IN  Clicked(picked, fill.clicks)

\* handleSubmit of the TaskForm: the task data it passes to onSubmit.
SubmittedData(formData, showNewCategory, newCategory) ==
  [formData EXCEPT !.category =
     IF showNewCategory /\ Trim(newCategory) # <<>>
       THEN Trim(newCategory) ELSE formData.category]

------------------------------------------------------------------------------
(* Values the task card and the detail dialog derive from a task.  A shown  *)
(* duration is a record of the number the text holds and its wording; the   *)
(* clock counts quarter hours, so an hour is 4 and a tenth of an hour is    *)
(* 4/10.                                                                    *)

HourMs == 4

\* a % b of JavaScript: the remainder has the sign of a
Remainder(a, b) == IF a >= 0 THEN a % b ELSE 0 - ((0 - a) % b)

\* TaskCard and TaskDetail: the personnel records of the ids a task carries
assignedPersonnel_ActiveOnly(task) ==
  LET found == [k \in 1..Len(task.assignedTo) |->
                  SelectSeq(personnel,
                            LAMBDA p : p.id = task.assignedTo[k] /\ p.active)]
      present == SelectSeq(found, LAMBDA f : f # <<>>)
  IN [k \in 1..Len(present) |-> present[k][1]]

assignedPersonnel(task) ==
  LET found == [k \in 1..Len(task.assignedTo) |->
                  SelectSeq(personnel, LAMBDA p : p.id = task.assignedTo[k])]
      present == SelectSeq(found, LAMBDA f : f # <<>>)
  IN [k \in 1..Len(present) |-> present[k][1]]

\* durationInfo with a fault: the time is measured from the creation.
durationInfo_FromCreation(task, dateNow) ==
  IF task.status = "completed" /\ task.activatedAt # Absent
       /\ task.completedAt # Absent
    THEN [tenths |-> MathRound(Multiply(Divide(task.completedAt - task.createdAt,
                                               HourMs), 10)),
          text |-> "h completada"]
    ELSE IF task.status = "active" /\ task.activatedAt # Absent
      THEN [tenths |-> MathRound(Multiply(Divide(dateNow - task.createdAt,
                                                 HourMs), 10)),
            text |-> "h transcurridas"]
      ELSE [halves |-> task.estimatedHours, text |-> "h estimadas"]

\* TaskCard: the duration line, computed when the clock reads dateNow
durationInfo(task, dateNow) ==
  IF task.status = "completed" /\ task.activatedAt # Absent
       /\ task.completedAt # Absent
    THEN [tenths |-> MathRound(Multiply(Divide(task.completedAt - task.activatedAt,
                                               HourMs), 10)),
          text |-> "h completada"]
    ELSE IF task.status = "active" /\ task.activatedAt # Absent
      THEN [tenths |-> MathRound(Multiply(Divide(dateNow - task.activatedAt,
                                                 HourMs), 10)),
            text |-> "h transcurridas"]
      ELSE [halves |-> task.estimatedHours, text |-> "h estimadas"]

\* TaskDetail: the duration row, <<>> standing for null
calculateDuration(task, dateNow) ==
  IF task.status = "completed" /\ task.activatedAt # Absent
       /\ task.completedAt # Absent
    THEN LET duration == task.completedAt - task.activatedAt
         IN <<[hours |-> duration \div HourMs,
               minutes |-> (Remainder(duration, HourMs) * 60) \div HourMs,
               text |-> "h m"]>>
    ELSE IF task.status = "active" /\ task.activatedAt # Absent
      THEN LET duration == dateNow - task.activatedAt
           IN <<[hours |-> duration \div HourMs,
                 minutes |-> (Remainder(duration, HourMs) * 60) \div HourMs,
                 text |-> "h m (en curso)"]>>
      ELSE <<>>

------------------------------------------------------------------------------
(* Rendering.  A cell of a useMemo hook is <<>> before the hook has run and  *)
(* <<[deps, value]>> after; the dependencies are compared by value.  The    *)
(* cells of a component go with it when it is unmounted: the content of a  *)
(* tab while another tab is shown, the card of a task the list does not    *)
(* hold, and everything but the form while the form is shown.              *)

Tabs == {"dashboard", "tasks", "personnel"}

\* useMemo(() => value, deps) on a cell
useMemo(cell, deps, value) ==
  IF cell # <<>> /\ cell[1].deps = deps
    THEN cell
    ELSE <<[deps |-> deps, value |-> value]>>

\* Dashboard: the efficiency of the metrics memo, from the stats it is given
metrics(s) ==
  [efficiency |->
     IF s.activeTasks > 0
       THEN MathRound(Multiply(Divide(s.completedTasks,
                                      s.completedTasks + s.activeTasks), 100))
       ELSE 100]

\* Nothing is mounted yet
Unmounted ==
  [at |-> Absent, filteredTasks |-> <<>>, stats |-> <<>>, metrics |-> <<>>,
   durationInfo |-> <<>>, calculateDuration |-> <<>>]

\* Render with a fault: the memo of the filtered list does not depend on the
\* personnel filter.
Render_ListWithoutPersonnelFilter(prev) ==
  LET board == ~showTaskForm
      list == useMemo(prev.filteredTasks,
                      <<tasks, searchTerm, statusFilter, priorityFilter,
                        categoryFilter>>,
                      filteredTasks)
      dashboard == board /\ activeTab = "dashboard"
      statsCell == IF dashboard THEN useMemo(prev.stats, <<tasks, personnel>>, stats)
                   ELSE <<>>
      metricsCell == IF dashboard
                       THEN useMemo(prev.metrics, <<tasks, statsCell[1].value>>,
                                    metrics(statsCell[1].value))
                       ELSE <<>>
      cards == IF board /\ activeTab = "tasks"
                 THEN {list[1].value[i].id : i \in DOMAIN list[1].value}
                 ELSE {}
      card(id) == CHOOSE task \in Range(list[1].value) : task.id = id
  IN  [at |-> now,
       filteredTasks |-> list,
       stats |-> statsCell,
       metrics |-> metricsCell,
       durationInfo |->
         [id \in cards |->
            useMemo(IF id \in DOMAIN prev.durationInfo THEN prev.durationInfo[id]
                                                       ELSE <<>>,
                    <<card(id).status, card(id).activatedAt, card(id).completedAt,
                      card(id).estimatedHours>>,
                    durationInfo(card(id), now))],
       calculateDuration |->
         IF board /\ showTaskDetail /\ selectedTask # <<>>
           THEN <<calculateDuration(selectedTask[1], now)>>
           ELSE <<>>]

\* A render of App at the time now, prev being what the render before left:
\* the memo of App, those of the Dashboard and of the task cards that are
\* mounted, and the duration the open detail dialog computes.
Render(prev) ==
  LET board == ~showTaskForm
      list == useMemo(prev.filteredTasks,
                      <<tasks, searchTerm, statusFilter, priorityFilter,
                        categoryFilter, personnelFilter>>,
                      filteredTasks)
      dashboard == board /\ activeTab = "dashboard"
      statsCell == IF dashboard THEN useMemo(prev.stats, <<tasks, personnel>>, stats)
                   ELSE <<>>
      metricsCell == IF dashboard
                       THEN useMemo(prev.metrics, <<tasks, statsCell[1].value>>,
                                    metrics(statsCell[1].value))
                       ELSE <<>>
      cards == IF board /\ activeTab = "tasks"
                 THEN {list[1].value[i].id : i \in DOMAIN list[1].value}
                 ELSE {}
      card(id) == CHOOSE task \in Range(list[1].value) : task.id = id
  IN  [at |-> now,
       filteredTasks |-> list,
       stats |-> statsCell,
       metrics |-> metricsCell,
       durationInfo |->
         [id \in cards |->
            useMemo(IF id \in DOMAIN prev.durationInfo THEN prev.durationInfo[id]
                                                       ELSE <<>>,
                    <<card(id).status, card(id).activatedAt, card(id).completedAt,
                      card(id).estimatedHours>>,
                    durationInfo(card(id), now))],
       calculateDuration |->
         IF board /\ showTaskDetail /\ selectedTask # <<>>
           THEN <<calculateDuration(selectedTask[1], now)>>
           ELSE <<>>]

-----------------------------------------------------------------------------
(* The history variable.  For each task in the collection hist records      *)
(*   armed:    a setStatus call moved the task from pending to active and   *)
(*             no later setStatus call moved it from active to pending;     *)
(*   inActive: the task's status became active at some point and has not    *)
(*             been pending since;                                          *)
(*   paused:   the latest call that changed or rewrote the task's status    *)
(*             was a pause: setStatus(id, pending) while it was active;      *)
(*   onTable:  the task was created pending and its status has changed      *)
(*             only by setStatus calls along the transition table.          *)
(* It is written from the arguments of the calls and the status before      *)
(* them, never from the timestamps.                                         *)

\* event records the component whose handler asked something of the user or
\* checked its input in the latest event, and the outcome; NoEvent otherwise.
NoEvent == <<"", "">>

\* The input of a handler of the component as checked by it
Checked(component, declined) == <<component, IF declined THEN "declined" ELSE "accepted">>

\* window.confirm() as answered in a handler of the component
Confirm(component, answer) == <<component, IF answer THEN "accepted" ELSE "declined">>

\* The edges of the lifecycle's transition table.
TableEdges ==
  { <<"pending", "active">>, <<"active", "completed">>,
    <<"active", "pending">>, <<"pending", "completed">> }

HistOfSeed(task) ==
  [armed |-> task.activatedAt # Absent, inActive |-> task.activatedAt # Absent,
   paused |-> FALSE, onTable |-> TRUE]

HistOfNew(status) ==
  [armed |-> FALSE, inActive |-> status = "active", paused |-> FALSE,
   onTable |-> status = "pending"]

HistAfterSetStatus(h, prior, newStatus) ==
  [armed    |-> IF prior = "pending" /\ newStatus = "active" THEN TRUE
                ELSE IF prior = "active" /\ newStatus = "pending" THEN FALSE
                ELSE h.armed,
   inActive |-> IF newStatus = "active" THEN TRUE
                ELSE IF newStatus = "pending" THEN FALSE
                ELSE h.inActive,
   paused   |-> prior = "active" /\ newStatus = "pending",
   onTable  |-> h.onTable /\ (prior = newStatus \/ <<prior, newStatus>> \in TableEdges)]

HistAfterEdit(h, prior, newStatus) ==
  [armed    |-> h.armed,
   inActive |-> IF newStatus = "active" THEN TRUE
                ELSE IF newStatus = "pending" THEN FALSE
                ELSE h.inActive,
   paused   |-> IF newStatus = prior THEN h.paused ELSE FALSE,
   onTable  |-> h.onTable /\ prior = newStatus]

\* hist after a call of handleTaskSubmit(taskData)
RecordSubmit(taskData) ==
  IF editingTask # <<>>
    THEN [id \in TaskIds |->
            IF id = editingTask[1].id
              THEN HistAfterEdit(hist[id], TaskById(id).status, taskData.status)
              ELSE hist[id]]
    ELSE [id \in TaskIds \cup {generateId} |->
            IF id \in TaskIds THEN hist[id] ELSE HistOfNew(taskData.status)]

\* hist after a call of handleStatusChange(taskId, newStatus)
RecordSetStatus(taskId, newStatus) ==
  [id \in TaskIds |->
     IF id = taskId
       THEN HistAfterSetStatus(hist[id], TaskById(id).status, newStatus)
       ELSE hist[id]]

\* hist after a call of handleDeleteTask(taskId)
RecordDelete(taskId) == [id \in TaskIds \ {taskId} |-> hist[id]]

-----------------------------------------------------------------------------
(* The initial state: the App component as mounted.  What is on the screen  *)
(* is followed only where each event is followed by its render (InitRender); *)
(* elsewhere rendered stays Unmounted.                                       *)

InitApp ==
  /\ tasks = initialTasks
  /\ personnel = initialPersonnel
  /\ categories = initialCategories
  /\ showTaskForm = FALSE
  /\ editingTask = <<>>
  /\ selectedTask = <<>>
  /\ showTaskDetail = FALSE
  /\ now = StartNow
  /\ nextId = 0
  /\ steps = 0
  /\ hist = [id \in {initialTasks[i].id : i \in DOMAIN initialTasks} |->
               HistOfSeed(CHOOSE t \in Range(initialTasks) : t.id = id)]
  /\ event = NoEvent
  /\ NoFilters
  /\ activeTab = "dashboard"

Init == InitApp /\ rendered = Unmounted

\* The application mounted and rendered
InitRender == InitApp /\ rendered = Render(Unmounted)

\* One more handler call, with what it asked and got
StepAsking(e) ==
  /\ steps < MaxSteps /\ steps' = steps + 1 /\ event' = e
  /\ UNCHANGED <<filters, views>>

\* One more handler call
Step == StepAsking(NoEvent)

\* One more use of a control, with what it asked and got
StepUIAsking(e) ==
  /\ steps < MaxUISteps /\ steps' = steps + 1 /\ event' = e
  /\ UNCHANGED <<filters, views>>

\* One more use of a control
StepUI == StepUIAsking(NoEvent)

\* Time passes between two events.
Tick ==
  /\ now < StartNow + MaxTicks
  /\ now' = now + 1
  /\ UNCHANGED <<tasks, personnel, categories, showTaskForm, editingTask,
                 selectedTask, showTaskDetail, filters, nextId, steps, hist, event,
                 views>>

-----------------------------------------------------------------------------
(* The handlers called with any argument among the inputs, in any order *)

SubmitTask ==
  \E taskData \in TaskInputs :
    /\ Step
    /\ editingTask = <<>> => nextId < MaxNewTasks
    /\ handleTaskSubmit(taskData)
    /\ hist' = RecordSubmit(taskData)

SetStatus ==
  \E taskId \in TaskTargets, newStatus \in Statuses :
    /\ Step
    /\ taskId \in TaskIds \cup {UnknownId}
    /\ handleStatusChange(taskId, newStatus)
    /\ hist' = RecordSetStatus(taskId, newStatus)

EditTask ==
  \E task \in TargetTasks :
    Step /\ handleEditTask(task) /\ hist' = hist

DeleteTask ==
  \E taskId \in TaskTargets :
    /\ Step
    /\ taskId \in TaskIds \cup {UnknownId}
    /\ handleDeleteTask(taskId)
    /\ hist' = RecordDelete(taskId)

ViewTaskDetails ==
  \E task \in TargetTasks :
    Step /\ handleViewTaskDetails(task) /\ hist' = hist

CancelTaskForm == Step /\ cancelTaskForm /\ hist' = hist

OpenTaskForm == Step /\ openTaskForm /\ hist' = hist

CloseTaskDetail == Step /\ closeTaskDetail /\ hist' = hist

AddPerson ==
  \E newPerson \in PersonInputs :
    /\ StepAsking(Checked("PersonnelManager", AddPersonReturnsEarly(newPerson)))
    /\ handleAddPerson(newPerson) /\ hist' = hist

ToggleActive ==
  \E personId \in PersonTargets :
    /\ Step
    /\ personId \in PersonIds \cup {UnknownId}
    /\ handleToggleActive(personId)
    /\ hist' = hist

Next ==
  \/ SubmitTask
  \/ SetStatus
  \/ EditTask
  \/ DeleteTask
  \/ ViewTaskDetails
  \/ CancelTaskForm
  \/ OpenTaskForm
  \/ CloseTaskDetail
  \/ AddPerson
  \/ ToggleActive
  \/ Tick

Spec == Init /\ [][Next]_vars

-----------------------------------------------------------------------------
(* The handlers called through the controls rendered.  App renders the      *)
(* TaskForm alone while showTaskForm holds; otherwise it renders the tabs    *)
(* and the TaskDetail dialog, which is modal: while it is open no control    *)
(* behind it can be used.  Every task is taken to have a card (no filter     *)
(* hides it); the cards and switches used are those of the targets.          *)

DialogOpen == showTaskDetail /\ selectedTask # <<>>

OnBoard == ~showTaskForm /\ ~DialogOpen

InDialog == ~showTaskForm /\ DialogOpen

canActivate(task) == task.status = "pending"

\* canComplete with a fault: the button is shown before the task is started.
canComplete_Unstarted(task) == task.status # "completed"

canComplete(task) == task.status = "active"

\* canPause with a fault: the button is shown for every task once started.
canPause_OnceStarted(task) == task.status # "pending"

canPause(task) == task.status = "active"

\* TaskCard: "Iniciar"
CardStart ==
  \E task \in TargetTasks :
    /\ OnBoard /\ canActivate(task) /\ StepUI
    /\ handleStatusChange(task.id, "active")
    /\ hist' = RecordSetStatus(task.id, "active")

\* TaskCard: "Completar"
CardComplete ==
  \E task \in TargetTasks :
    /\ OnBoard /\ canComplete(task) /\ StepUI
    /\ handleStatusChange(task.id, "completed")
    /\ hist' = RecordSetStatus(task.id, "completed")

\* TaskCard: "Pausar"
CardPause ==
  \E task \in TargetTasks :
    /\ OnBoard /\ canPause(task) /\ StepUI
    /\ handleStatusChange(task.id, "pending")
    /\ hist' = RecordSetStatus(task.id, "pending")

\* TaskCard: "Editar"
CardEdit ==
  \E task \in TargetTasks :
    OnBoard /\ StepUI /\ handleEditTask(task) /\ hist' = hist

\* CardDelete with a fault: the task is deleted without asking.
CardDelete_Unasked ==
  \E task \in TargetTasks :
    /\ OnBoard /\ StepUI
    /\ handleDeleteTask(task.id) /\ hist' = RecordDelete(task.id)

\* TaskCard: "Eliminar", with the answer given to confirm()
CardDelete ==
  \E task \in TargetTasks, confirmed \in BOOLEAN :
    /\ OnBoard /\ StepUIAsking(Confirm("TaskCard", confirmed))
    /\ IF confirmed
         THEN handleDeleteTask(task.id) /\ hist' = RecordDelete(task.id)
         ELSE UNCHANGED <<tasks, personnel, categories, showTaskForm, editingTask,
                          selectedTask, showTaskDetail, now, nextId, hist>>

\* TaskCard: a click on the card
CardViewDetails ==
  \E task \in TargetTasks :
    OnBoard /\ StepUI /\ handleViewTaskDetails(task) /\ hist' = hist

\* "Nueva Tarea"
NewTaskButton == OnBoard /\ StepUI /\ openTaskForm /\ hist' = hist

\* TaskDetail: "Editar"
DetailEdit ==
  InDialog /\ StepUI /\ handleEditTask(selectedTask[1]) /\ hist' = hist

\* TaskDetail: "Eliminar": onDelete(task.id) then onClose(), after confirm()
DetailDelete ==
  \E confirmed \in BOOLEAN :
    /\ InDialog /\ StepUIAsking(Confirm("TaskDetail", confirmed))
    /\ IF confirmed
         THEN /\ tasks' = Deleted(tasks, selectedTask[1].id)
              /\ selectedTask' = <<>>
              /\ showTaskDetail' = FALSE
              /\ hist' = RecordDelete(selectedTask[1].id)
              /\ UNCHANGED <<personnel, categories, showTaskForm, editingTask,
                             now, nextId>>
         ELSE UNCHANGED <<tasks, personnel, categories, showTaskForm, editingTask,
                          selectedTask, showTaskDetail, now, nextId, hist>>

\* DetailStatus with a fault: onClose() is not called.
DetailStatus_StaysOpen(newStatus) ==
  /\ InDialog /\ StepUI
  /\ tasks' = StatusChanged(tasks, selectedTask[1].id, newStatus, now)
  /\ hist' = RecordSetStatus(selectedTask[1].id, newStatus)
  /\ UNCHANGED <<personnel, categories, showTaskForm, editingTask, selectedTask,
                 showTaskDetail, now, nextId>>

\* TaskDetail: a status button: onStatusChange(task.id, newStatus) then onClose()
DetailStatus(newStatus) ==
  /\ InDialog /\ StepUI
  /\ tasks' = StatusChanged(tasks, selectedTask[1].id, newStatus, now)
  /\ showTaskDetail' = FALSE
  /\ hist' = RecordSetStatus(selectedTask[1].id, newStatus)
  /\ UNCHANGED <<personnel, categories, showTaskForm, editingTask, selectedTask,
                 now, nextId>>

DetailStart == InDialog /\ canActivate(selectedTask[1]) /\ DetailStatus("active")

DetailPause == InDialog /\ canPause(selectedTask[1]) /\ DetailStatus("pending")

DetailComplete == InDialog /\ canComplete(selectedTask[1]) /\ DetailStatus("completed")

\* TaskDetail: the dialog is dismissed
DetailClose == InDialog /\ StepUI /\ closeTaskDetail /\ hist' = hist

\* TaskForm: the form is filled and submitted (the title is required)
FormSubmit ==
  \E fill \in FormFills :
    LET formData == Filled(InitialFormData(editingTask, categories), fill)
        taskData == SubmittedData(formData, fill.showNewCategory, fill.newCategory)
    IN  /\ showTaskForm /\ CanFill(fill) /\ formData.title # <<>>
        /\ StepUI
        /\ editingTask = <<>> => nextId < MaxNewTasks
        /\ handleTaskSubmit(taskData)
        /\ hist' = RecordSubmit(taskData)

\* TaskForm: "Cancelar"
FormCancel == showTaskForm /\ StepUI /\ cancelTaskForm /\ hist' = hist

\* PersonnelManager: "Agregar" with the add form filled
AddPersonButton ==
  \E newPerson \in PersonInputs :
    /\ OnBoard
    /\ StepUIAsking(Checked("PersonnelManager", AddPersonReturnsEarly(newPerson)))
    /\ handleAddPerson(newPerson) /\ hist' = hist

\* PersonnelManager: the switch of a person
ToggleSwitch ==
  \E personId \in PersonTargets \cap PersonIds :
    OnBoard /\ StepUI /\ handleToggleActive(personId) /\ hist' = hist

NextUI ==
  \/ CardStart
  \/ CardComplete
  \/ CardPause
  \/ CardEdit
  \/ CardDelete
  \/ CardViewDetails
  \/ NewTaskButton
  \/ DetailEdit
  \/ DetailDelete
  \/ DetailStart
  \/ DetailPause
  \/ DetailComplete
  \/ DetailClose
  \/ FormSubmit
  \/ FormCancel
  \/ AddPersonButton
  \/ ToggleSwitch
  \/ Tick

SpecUI == Init /\ [][NextUI]_vars

-----------------------------------------------------------------------------
(* Boards: task collections the handlers lead to from the seed, each with    *)
(* the history of its tasks.  They are built with the handlers' own          *)
(* operators, at the time the session starts.                                *)

Mounted ==
  [tasks |-> initialTasks,
   hist |-> [id \in {initialTasks[i].id : i \in DOMAIN initialTasks} |->
               HistOfSeed(CHOOSE t \in Range(initialTasks) : t.id = id)],
   nextId |-> 0]

\* The board after handleTaskSubmit(taskData) with no task being edited
WithNew(b, taskData) ==
  [tasks |-> Append(b.tasks, NewTask(taskData, NewIds[b.nextId + 1], StartNow)),
   hist |-> [id \in DOMAIN b.hist \cup {NewIds[b.nextId + 1]} |->
               IF id \in DOMAIN b.hist THEN b.hist[id] ELSE HistOfNew(taskData.status)],
   nextId |-> b.nextId + 1]

\* The board after handleStatusChange(taskId, "active") on a pending task
Started(b, taskId) ==
  [tasks |-> StatusChanged(b.tasks, taskId, "active", StartNow),
   hist |-> [id \in DOMAIN b.hist |->
               IF id = taskId THEN HistAfterSetStatus(b.hist[id], "pending", "active")
               ELSE b.hist[id]],
   nextId |-> b.nextId]

\* The board after handleDeleteTask(taskId)
Without(b, taskId) ==
  [tasks |-> Deleted(b.tasks, taskId),
   hist |-> [id \in DOMAIN b.hist \ {taskId} |-> b.hist[id]],
   nextId |-> b.nextId]

\* A task of the form's shape: unassigned, pending, of a known category
UnassignedInput ==
  CHOOSE taskData \in TaskInputs :
    taskData.assignedTo = <<>> /\ taskData.status = "pending"

Boards ==
  { Mounted,
    WithNew(Mounted, UnassignedInput),
    Started(WithNew(Mounted, UnassignedInput), "2"),
    Started(Without(Mounted, "7"), "2"),
    Started(Without(Without(Without(Mounted, "3"), "6"), "7"), "2"),
    Without(Without(Without(Without(Without(Mounted, "2"), "3"), "4"), "6"), "7") }

\* The App component on one of the boards
InitBoards ==
  \E b \in Boards :
    /\ tasks = b.tasks
    /\ hist = b.hist
    /\ nextId = b.nextId
    /\ personnel = initialPersonnel
    /\ categories = initialCategories
    /\ showTaskForm = FALSE
    /\ editingTask = <<>>
    /\ selectedTask = <<>>
    /\ showTaskDetail = FALSE
    /\ now = StartNow
    /\ steps = 0
    /\ event = NoEvent
    /\ NoFilters
    /\ activeTab = "dashboard"
    /\ rendered = Unmounted

-----------------------------------------------------------------------------
(* The filter controls of the tasks tab, used on a board *)

\* The texts typed in the search box; " " is a blank.
SearchTerms == { <<>>, <<"c", "A">>, <<"p">>, <<" ">> }

\* The persons picked in the personnel select, among those it offers.
FilterPersons == {"1", "2", "5"}

\* The texts typed, and the priorities and categories picked, where each use
\* of a control is followed by a render
ShownSearchTerms == { <<>>, <<"c", "A">> }

ShownPriorities == {"all", "urgent"}

ShownCategories == {initialCategories[1]}

\* The controls of TaskFilters leave everything but the criteria alone.
FilterFrame ==
  UNCHANGED <<tasks, personnel, categories, showTaskForm, editingTask,
              selectedTask, showTaskDetail, now, nextId, steps, hist, event,
              views>>

\* TaskFilters: the search box
SearchChange ==
  \E value \in SearchTerms :
    /\ OnBoard /\ searchTerm' = value
    /\ UNCHANGED <<statusFilter, priorityFilter, categoryFilter, personnelFilter>>
    /\ FilterFrame

\* TaskFilters: the status select
StatusFilterChange ==
  \E value \in {"all"} \cup Statuses :
    /\ OnBoard /\ statusFilter' = value
    /\ UNCHANGED <<searchTerm, priorityFilter, categoryFilter, personnelFilter>>
    /\ FilterFrame

\* TaskFilters: the priority select
PriorityFilterChange ==
  \E value \in {"all"} \cup Priorities :
    /\ OnBoard /\ priorityFilter' = value
    /\ UNCHANGED <<searchTerm, statusFilter, categoryFilter, personnelFilter>>
    /\ FilterFrame

\* TaskFilters: the category select, which offers the categories known
CategoryFilterChange ==
  \E value \in {AllText} \cup Range(categories) :
    /\ OnBoard /\ categoryFilter' = value
    /\ UNCHANGED <<searchTerm, statusFilter, priorityFilter, personnelFilter>>
    /\ FilterFrame

\* TaskFilters: the personnel select, which offers the active personnel
PersonnelFilterChange ==
  \E value \in {"all", "unassigned"} \cup (ActivePersonIds \cap FilterPersons) :
    /\ OnBoard /\ personnelFilter' = value
    /\ UNCHANGED <<searchTerm, statusFilter, priorityFilter, categoryFilter>>
    /\ FilterFrame

\* TaskFilters: "Limpiar", shown while a select filters
ClearFilters ==
  /\ OnBoard /\ activeFiltersCount > 0
  /\ clearFilters
  /\ UNCHANGED <<steps, hist, event, views>>

\* PersonnelManager: the switch of a person, used while the filter is set
SwitchUnderFilter ==
  \E personId \in PersonTargets \cap PersonIds :
    /\ OnBoard /\ handleToggleActive(personId)
    /\ UNCHANGED <<filters, steps, hist, event, views>>

NextFilter ==
  \/ SearchChange
  \/ StatusFilterChange
  \/ PriorityFilterChange
  \/ CategoryFilterChange
  \/ PersonnelFilterChange
  \/ ClearFilters
  \/ SwitchUnderFilter

SpecFilter == InitBoards /\ [][NextFilter]_vars

-----------------------------------------------------------------------------
(* Tasks created, deleted and moved between statuses on a board *)

NextBoard ==
  \/ SubmitTask
  \/ SetStatus
  \/ DeleteTask

SpecBoard == InitBoards /\ [][NextBoard]_vars

------------------------------------------------------------------------------
(* Tasks created, deleted and moved between statuses while time passes *)

NextClock ==
  \/ SubmitTask
  \/ SetStatus
  \/ DeleteTask
  \/ Tick

SpecClock == InitBoards /\ [][NextClock]_vars

-----------------------------------------------------------------------------
(* The application used through its controls, each use followed by the      *)
(* render React makes after a state change.  The controls are those of the  *)
(* tab shown, the cards are those of the list rendered, and nothing is      *)
(* rendered while only time passes: the application holds no timer.         *)

\* One more use of a control
RenderStep(e) == steps < MaxRenders /\ steps' = steps + 1 /\ event' = e

\* The render after a state change
Painted == \E prev \in {rendered} : rendered' = Render(prev)'

OnTasksTab == OnBoard /\ activeTab = "tasks"

\* The cards on the screen, among those of the targets
CardsShown ==
  {task \in Range(rendered.filteredTasks[1].value) : task.id \in TaskTargets}

\* TabsTrigger: another tab is shown
TabChange ==
  \E tab \in Tabs \ {activeTab} :
    /\ OnBoard /\ RenderStep(NoEvent)
    /\ activeTab' = tab
    /\ UNCHANGED <<tasks, personnel, categories, showTaskForm, editingTask,
                   selectedTask, showTaskDetail, filters, now, nextId, hist>>
    /\ Painted

\* TaskCard: "Iniciar", "Completar" or "Pausar" on a card of the list
ShownCardStatus ==
  \E task \in CardsShown, newStatus \in Statuses :
    /\ OnTasksTab
    /\ \/ newStatus = "active" /\ canActivate(task)
       \/ newStatus = "completed" /\ canComplete(task)
       \/ newStatus = "pending" /\ canPause(task)
    /\ RenderStep(NoEvent)
    /\ handleStatusChange(task.id, newStatus)
    /\ hist' = RecordSetStatus(task.id, newStatus)
    /\ UNCHANGED <<filters, activeTab>>
    /\ Painted

\* TaskCard: "Eliminar" on a card of the list
ShownCardDelete ==
  \E task \in CardsShown, confirmed \in BOOLEAN :
    /\ OnTasksTab /\ RenderStep(Confirm("TaskCard", confirmed))
    /\ IF confirmed
         THEN /\ handleDeleteTask(task.id) /\ hist' = RecordDelete(task.id)
              /\ UNCHANGED <<filters, activeTab>>
              /\ Painted
         ELSE UNCHANGED <<tasks, personnel, categories, showTaskForm, editingTask,
                          selectedTask, showTaskDetail, filters, now, nextId, hist,
                          views>>

\* TaskCard: a click on a card of the list
ShownCardViewDetails ==
  \E task \in CardsShown :
    /\ OnTasksTab /\ RenderStep(NoEvent)
    /\ handleViewTaskDetails(task) /\ hist' = hist
    /\ UNCHANGED <<filters, activeTab>>
    /\ Painted

\* TaskCard: "Editar" on a card of the list
ShownCardEdit ==
  \E task \in CardsShown :
    /\ OnTasksTab /\ RenderStep(NoEvent)
    /\ handleEditTask(task) /\ hist' = hist
    /\ UNCHANGED <<filters, activeTab>>
    /\ Painted

\* "Nueva Tarea", a button of the tasks tab
ShownNewTask ==
  /\ OnTasksTab /\ RenderStep(NoEvent)
  /\ openTaskForm /\ hist' = hist
  /\ UNCHANGED <<filters, activeTab>>
  /\ Painted

\* TaskForm: the form is filled and submitted
ShownFormSubmit ==
  \E fill \in FormFills :
    LET formData == Filled(InitialFormData(editingTask, categories), fill)
        taskData == SubmittedData(formData, fill.showNewCategory, fill.newCategory)
    IN  /\ showTaskForm /\ CanFill(fill) /\ formData.title # <<>>
        /\ RenderStep(NoEvent)
        /\ editingTask = <<>> => nextId < MaxNewTasks
        /\ handleTaskSubmit(taskData)
        /\ hist' = RecordSubmit(taskData)
        /\ UNCHANGED <<filters, activeTab>>
        /\ Painted

\* TaskForm: "Cancelar"
ShownFormCancel ==
  /\ showTaskForm /\ RenderStep(NoEvent)
  /\ cancelTaskForm /\ hist' = hist
  /\ UNCHANGED <<filters, activeTab>>
  /\ Painted

\* TaskDetail: a status button of the open dialog
ShownDetailStatus ==
  \E newStatus \in Statuses :
    /\ InDialog
    /\ \/ newStatus = "active" /\ canActivate(selectedTask[1])
       \/ newStatus = "completed" /\ canComplete(selectedTask[1])
       \/ newStatus = "pending" /\ canPause(selectedTask[1])
    /\ RenderStep(NoEvent)
    /\ tasks' = StatusChanged(tasks, selectedTask[1].id, newStatus, now)
    /\ showTaskDetail' = FALSE
    /\ hist' = RecordSetStatus(selectedTask[1].id, newStatus)
    /\ UNCHANGED <<personnel, categories, showTaskForm, editingTask, selectedTask,
                   now, nextId, filters, activeTab>>
    /\ Painted

\* TaskDetail: the open dialog is dismissed
ShownDetailClose ==
  /\ InDialog /\ RenderStep(NoEvent)
  /\ closeTaskDetail /\ hist' = hist
  /\ UNCHANGED <<filters, activeTab>>
  /\ Painted

\* TaskFilters: another text in the search box
ShownSearchChange ==
  \E value \in ShownSearchTerms \ {searchTerm} :
    /\ OnTasksTab /\ RenderStep(NoEvent)
    /\ searchTerm' = value
    /\ UNCHANGED <<statusFilter, priorityFilter, categoryFilter, personnelFilter>>
    /\ UNCHANGED <<tasks, personnel, categories, showTaskForm, editingTask,
                   selectedTask, showTaskDetail, now, nextId, hist, activeTab>>
    /\ Painted

\* TaskFilters: another entry of the status select
ShownStatusFilterChange ==
  \E value \in ({"all"} \cup Statuses) \ {statusFilter} :
    /\ OnTasksTab /\ RenderStep(NoEvent)
    /\ statusFilter' = value
    /\ UNCHANGED <<searchTerm, priorityFilter, categoryFilter, personnelFilter>>
    /\ UNCHANGED <<tasks, personnel, categories, showTaskForm, editingTask,
                   selectedTask, showTaskDetail, now, nextId, hist, activeTab>>
    /\ Painted

\* TaskFilters: another entry of the priority select
ShownPriorityFilterChange ==
  \E value \in ShownPriorities \ {priorityFilter} :
    /\ OnTasksTab /\ RenderStep(NoEvent)
    /\ priorityFilter' = value
    /\ UNCHANGED <<searchTerm, statusFilter, categoryFilter, personnelFilter>>
    /\ UNCHANGED <<tasks, personnel, categories, showTaskForm, editingTask,
                   selectedTask, showTaskDetail, now, nextId, hist, activeTab>>
    /\ Painted

\* TaskFilters: another entry of the category select
ShownCategoryFilterChange ==
  \E value \in ({AllText} \cup (Range(categories) \cap ShownCategories))
                 \ {categoryFilter} :
    /\ OnTasksTab /\ RenderStep(NoEvent)
    /\ categoryFilter' = value
    /\ UNCHANGED <<searchTerm, statusFilter, priorityFilter, personnelFilter>>
    /\ UNCHANGED <<tasks, personnel, categories, showTaskForm, editingTask,
                   selectedTask, showTaskDetail, now, nextId, hist, activeTab>>
    /\ Painted

\* TaskFilters: another entry of the personnel select
ShownPersonnelFilterChange ==
  \E value \in ({"all", "unassigned"} \cup (ActivePersonIds \cap FilterPersons))
                 \ {personnelFilter} :
    /\ OnTasksTab /\ RenderStep(NoEvent)
    /\ personnelFilter' = value
    /\ UNCHANGED <<searchTerm, statusFilter, priorityFilter, categoryFilter>>
    /\ UNCHANGED <<tasks, personnel, categories, showTaskForm, editingTask,
                   selectedTask, showTaskDetail, now, nextId, hist, activeTab>>
    /\ Painted

\* TaskFilters: "Limpiar", shown while a select filters
ShownClearFilters ==
  /\ OnTasksTab /\ activeFiltersCount > 0
  /\ RenderStep(NoEvent)
  /\ clearFilters /\ hist' = hist
  /\ UNCHANGED activeTab
  /\ Painted

\* PersonnelManager: the switch of a person
ShownSwitch ==
  \E personId \in PersonTargets \cap PersonIds :
    /\ OnBoard /\ activeTab = "personnel" /\ RenderStep(NoEvent)
    /\ handleToggleActive(personId) /\ hist' = hist
    /\ UNCHANGED <<filters, activeTab>>
    /\ Painted

\* PersonnelManager: "Agregar" with the add form filled; nothing is rendered
\* when the handler returns early
ShownAddPerson ==
  \E newPerson \in PersonInputs :
    /\ OnBoard /\ activeTab = "personnel"
    /\ RenderStep(Checked("PersonnelManager", AddPersonReturnsEarly(newPerson)))
    /\ handleAddPerson(newPerson) /\ hist' = hist
    /\ UNCHANGED <<filters, activeTab>>
    /\ IF AddPersonReturnsEarly(newPerson) THEN UNCHANGED rendered ELSE Painted

NextRender ==
  \/ TabChange
  \/ ShownCardStatus
  \/ ShownCardDelete
  \/ ShownCardViewDetails
  \/ ShownCardEdit
  \/ ShownNewTask
  \/ ShownFormSubmit
  \/ ShownFormCancel
  \/ ShownDetailStatus
  \/ ShownDetailClose
  \/ ShownSearchChange
  \/ ShownStatusFilterChange
  \/ ShownPriorityFilterChange
  \/ ShownCategoryFilterChange
  \/ ShownPersonnelFilterChange
  \/ ShownClearFilters
  \/ ShownSwitch
  \/ ShownAddPerson
  \/ Tick

SpecRender == InitRender /\ [][NextRender]_vars

-----------------------------------------------------------------------------
(* Properties of the task lifecycle *)

SeedIds == {initialTasks[i].id : i \in DOMAIN initialTasks}

Completed(task) == task.status = "completed"

\* C1 as stated: in every reachable state every task is completed if and only
\* if its completedAt is present.
C1_CompletedIffCompletedAt ==
  \A task \in Range(tasks) : Completed(task) <=> task.completedAt # Absent

\* C1 as amended: every task that was created pending and whose status has
\* changed only by setStatus calls along the transition table is completed if
\* and only if its completedAt is present.
C1_OnTableCompletedIffCompletedAt ==
  \A task \in Range(tasks) :
    hist[task.id].onTable => (Completed(task) <=> task.completedAt # Absent)

\* A task on the table was completed in this session.
C1_Witness ==
  \E task \in Range(tasks) :
    hist[task.id].onTable /\ Completed(task) /\ task.completedAt \in Times

\* C2 as stated: activatedAt is present if and only if the task has entered
\* status active and its status has not been pending since.
C2_ActivatedIffInActive ==
  \A task \in Range(tasks) : task.activatedAt # Absent <=> hist[task.id].inActive

\* C2 as amended: activatedAt is present if and only if a setStatus call moved
\* the task from pending to active and no later setStatus call moved it from
\* active to pending.
C2_ActivatedIffArmed ==
  \A task \in Range(tasks) : task.activatedAt # Absent <=> hist[task.id].armed

\* A task was activated in this session and is not active any more.
C2_Witness ==
  \E task \in Range(tasks) :
    hist[task.id].armed /\ task.activatedAt \in Times /\ task.status # "active"

\* C3: setStatus(id, active) on an existing task makes its status active, leaves
\* completedAt as it was, and sets activatedAt to the current time when the
\* prior status is pending and leaves it as it was otherwise.
C3_Activate ==
  [][\A id \in TaskIds :
       handleStatusChange(id, "active") =>
         /\ TaskById(id)'.status = "active"
         /\ TaskById(id)'.completedAt = TaskById(id).completedAt
         /\ TaskById(id)'.activatedAt =
              IF TaskById(id).status = "pending" THEN now
              ELSE TaskById(id).activatedAt]_vars

\* A task is active since a time of this session, and another task is active
\* with the activatedAt (absent or of the seed) it had before.
C3_Witness ==
  \E a, b \in Range(tasks) :
    /\ a.status = "active" /\ a.activatedAt \in Times
    /\ b.status = "active" /\ b.activatedAt \notin Times

\* C4: after setStatus(id, pending) on an active task, and until its status is
\* written again, the task is pending and its activatedAt is absent.
C4_PauseClearsActivatedAt ==
  \A task \in Range(tasks) :
    hist[task.id].paused => task.status = "pending" /\ task.activatedAt = Absent

\* A task created in this session was started and then paused.
C4_Witness ==
  \E task \in Range(tasks) :
    task.id \notin SeedIds /\ hist[task.id].onTable /\ hist[task.id].paused

\* C5: setStatus(id, completed) on an existing task makes its status completed,
\* sets completedAt to the current time whatever the prior status, and leaves
\* activatedAt as it was.
C5_Complete ==
  [][\A id \in TaskIds :
       handleStatusChange(id, "completed") =>
         /\ TaskById(id)'.status = "completed"
         /\ TaskById(id)'.completedAt = now
         /\ TaskById(id)'.activatedAt = TaskById(id).activatedAt]_vars

\* A task was completed in this session without ever being started.
C5_Witness ==
  \E task \in Range(tasks) :
    /\ Completed(task) /\ task.completedAt \in Times
    /\ task.activatedAt = Absent /\ ~hist[task.id].inActive

StalePending(task) == task.status = "pending" /\ task.activatedAt # Absent

\* C6 as stated: a pending task holds an activatedAt only when it was active
\* and was then paused.
C6_StalePendingOnlyByPause ==
  \A task \in Range(tasks) : StalePending(task) => hist[task.id].paused

\* C6 as amended: a pending task holding an activatedAt is reachable, but never
\* by a pause.  A task comes to be pending with an activatedAt only from
\* completed (setStatus(id, pending) outside the transition table, or an edit)
\* or from active by an edit of its status, and its activatedAt is the one it
\* held before.
C6_StalePendingOnlyOffTable ==
  [][\A id \in TaskIds :
       (id \in TaskIds' /\ StalePending(TaskById(id)') /\ ~StalePending(TaskById(id))) =>
         /\ TaskById(id)'.activatedAt = TaskById(id).activatedAt
         /\ \/ TaskById(id).status = "completed"
            \/ /\ TaskById(id).status = "active"
               /\ editingTask # <<>> /\ editingTask[1].id = id
               /\ \E taskData \in TaskInputs : handleTaskSubmit(taskData)
         /\ ~handleStatusChange(id, "pending") \/ TaskById(id).status = "completed"]_vars

\* A task started in this session and set back to pending by setStatus alone
\* holds an activatedAt.
C6_Witness ==
  \E task \in Range(tasks) :
    /\ StalePending(task) /\ task.activatedAt \in Times
    /\ task.title \in {initialTasks[i].title : i \in DOMAIN initialTasks}

\* C7: setStatus(id, s) on an existing task leaves it with status s whatever
\* the prior status; from completed to pending or active no timestamp changes.
C7_StatusAlwaysWritten ==
  [][UNCHANGED <<personnel, categories, showTaskForm, editingTask,
                 selectedTask, showTaskDetail, now, nextId>> =>
       \A id \in TaskIds, s \in Statuses :
         handleStatusChange(id, s) =>
           /\ TaskById(id)'.status = s
           /\ (TaskById(id).status = "completed" /\ s # "completed") =>
                /\ TaskById(id)'.activatedAt = TaskById(id).activatedAt
                /\ TaskById(id)'.completedAt = TaskById(id).completedAt]_vars

\* A task that left completed by setStatus: it has never been edited, and its
\* completedAt is present while its status is not completed.
C7_Witness ==
  \E task \in Range(tasks) :
    /\ ~Completed(task) /\ task.completedAt # Absent
    /\ ~hist[task.id].onTable
    /\ task.id \in SeedIds
    /\ task.title \in {initialTasks[i].title : i \in DOMAIN initialTasks}

\* C8: through the controls rendered, a task that is completed stays completed
\* for as long as it is in the collection.
C8_CompletedIsTerminal ==
  [][\A id \in TaskIds :
       (Completed(TaskById(id)) /\ id \in TaskIds') => Completed(TaskById(id)')]_vars

\* A completed task of the seed was edited through the form, and another task
\* was completed in this session.
C8_Witness ==
  \E task, other \in Range(tasks) :
    /\ task.id = initialTasks[2].id /\ Completed(task)
    /\ task.title # initialTasks[2].title
    /\ Completed(other) /\ other.completedAt \in Times

\* A call of updateTask or setStatus: handleTaskSubmit while a task is being
\* edited, or handleStatusChange.
UpdateOrSetStatus ==
  \/ editingTask # <<>> /\ \E taskData \in TaskInputs : handleTaskSubmit(taskData)
  \/ \E id \in TaskIds \cup {UnknownId}, s \in Statuses : handleStatusChange(id, s)

\* C9: updateTask and setStatus leave the id and the createdAt of every task,
\* and the tasks' number and order, as they were.
C9_IdAndCreatedAtFixed ==
  [][\/ /\ Len(tasks') = Len(tasks)
        /\ \A i \in DOMAIN tasks :
             /\ tasks'[i].id = tasks[i].id
             /\ tasks'[i].createdAt = tasks[i].createdAt
     \/ ~UpdateOrSetStatus]_vars

\* A seed task was edited and given another status, and holds the createdAt of
\* the seed.
C9_Witness ==
  \E i \in DOMAIN tasks :
    /\ tasks[i].id = initialTasks[1].id
    /\ tasks[i].title # initialTasks[1].title
    /\ tasks[i].status # initialTasks[1].status
    /\ tasks[i].createdAt = initialTasks[1].createdAt

\* C10: updateTask(id, input) on an existing task gives it the input's title,
\* description, priority, assignedTo, estimatedHours, category and status, and
\* leaves its activatedAt and completedAt, every other task and the personnel
\* as they were.
C10_UpdateReplacesFormFields ==
  [][\A taskData \in TaskInputs :
       (/\ editingTask # <<>>
        /\ editingTask[1].id \in TaskIds
        /\ handleTaskSubmit(taskData)) =>
         /\ Len(tasks') = Len(tasks)
         /\ \A i \in DOMAIN tasks :
              IF tasks[i].id = editingTask[1].id
                THEN /\ tasks'[i].title = taskData.title
                     /\ tasks'[i].description = taskData.description
                     /\ tasks'[i].priority = taskData.priority
                     /\ tasks'[i].assignedTo = taskData.assignedTo
                     /\ tasks'[i].estimatedHours = taskData.estimatedHours
                     /\ tasks'[i].category = taskData.category
                     /\ tasks'[i].status = taskData.status
                     /\ tasks'[i].activatedAt = tasks[i].activatedAt
                     /\ tasks'[i].completedAt = tasks[i].completedAt
                ELSE tasks'[i] = tasks[i]
         /\ personnel' = personnel]_vars

\* A completed seed task was edited to pending with a new title, priority,
\* assignment, estimate and category, and holds both its timestamps.
C10_Witness ==
  \E task \in Range(tasks) :
    /\ task.id = initialTasks[2].id
    /\ task.title = <<"a", "B">> /\ task.priority = "urgent"
    /\ task.assignedTo = <<"3", "1">> /\ task.estimatedHours = 5
    /\ task.category = <<"E", "m">> /\ task.status = "pending"
    /\ task.activatedAt = initialTasks[2].activatedAt
    /\ task.completedAt = initialTasks[2].completedAt

-----------------------------------------------------------------------------
(* Properties of the entity store *)

\* C11: updateTask(id, input) with an id that is not in the task collection
\* changes neither the task collection, nor the category registry, nor the
\* personnel collection, whatever input.category is.
C11_UnknownIdUpdateIsNoOp ==
  [][\A taskData \in TaskInputs :
       (/\ editingTask # <<>>
        /\ editingTask[1].id \notin TaskIds
        /\ handleTaskSubmit(taskData)) =>
         UNCHANGED <<tasks, categories, personnel>>]_vars

\* C12: deleteTask(id) removes exactly the task with that id; every other task
\* stays, with its fields and in the same relative order; personnel and the
\* category registry are unchanged; with an unknown id the task collection is
\* unchanged.
C12_DeleteRemovesExactlyOne ==
  [][\A id \in TaskTargets :
       (/\ UNCHANGED <<personnel, categories, showTaskForm, editingTask, now, nextId>>
        /\ handleDeleteTask(id)) =>
         /\ TaskIds' = TaskIds \ {id}
         /\ Len(tasks') = Cardinality({i \in DOMAIN tasks : tasks[i].id # id})
         /\ \A i \in DOMAIN tasks :
              tasks[i].id # id => \E k \in DOMAIN tasks' : tasks'[k] = tasks[i]
         /\ \A i, j \in DOMAIN tasks :
              (i < j /\ tasks[i].id # id /\ tasks[j].id # id) =>
                \E k \in DOMAIN tasks' :
                  /\ tasks'[k] = tasks[i]
                  /\ \E l \in (k + 1) .. Len(tasks') : tasks'[l] = tasks[j]
         /\ (id \notin TaskIds => tasks' = tasks)
         /\ UNCHANGED <<personnel, categories>>]_vars

\* The first task of the seed was deleted and the four others are left as they
\* were.
C12_Witness ==
  /\ initialTasks[1].id \notin TaskIds
  /\ tasks = SubSeq(initialTasks, 2, Len(initialTasks))

\* C13: through the controls rendered, a task leaves the collection only in an
\* event whose confirmation the user accepted, asked by the task card or by
\* the task detail dialog; an event whose confirmation was declined leaves the
\* task collection unchanged.
C13_DeleteOnlyWhenConfirmed ==
  [][/\ (\E id \in TaskIds : id \notin TaskIds') =>
          event' \in {Confirm("TaskCard", TRUE), Confirm("TaskDetail", TRUE)}
     /\ event' \in {Confirm("TaskCard", FALSE), Confirm("TaskDetail", FALSE)} =>
          UNCHANGED <<tasks, selectedTask, showTaskDetail>>]_vars

\* A delete was confirmed on a card and the task is gone; then the delete of
\* another task was declined in the detail dialog, which still shows it.
C13_Witness ==
  /\ event = Confirm("TaskDetail", FALSE)
  /\ Len(tasks) = Len(initialTasks) - 1
  /\ InDialog /\ selectedTask[1].id \in TaskIds

\* C14: after createTask with category c, c is in the category registry: a
\* category not known before is appended once, at the end, and the entries
\* before it are as they were; a known category leaves the registry unchanged.
C14_CreateRegistersCategory ==
  [][\A taskData \in TaskInputs :
       (editingTask = <<>> /\ handleTaskSubmit(taskData)) =>
         LET c == taskData.category
         IN  /\ \E i \in DOMAIN categories' : categories'[i] = c
             /\ Cardinality({i \in DOMAIN categories' : categories'[i] = c}) = 1
             /\ SubSeq(categories', 1, Len(categories)) = categories
             /\ IF \E i \in DOMAIN categories : categories[i] = c
                  THEN categories' = categories
                  ELSE /\ Len(categories') = Len(categories) + 1
                       /\ categories'[Len(categories')] = c]_vars

\* A task was created with a category the registry did not hold: the registry
\* is the initial one followed by that category.
C14_Witness ==
  \E task \in Range(tasks) :
    /\ task.id \in Range(NewIds)
    /\ \A i \in DOMAIN initialCategories : initialCategories[i] # task.category
    /\ Len(categories) = Len(initialCategories) + 1
    /\ SubSeq(categories, 1, Len(initialCategories)) = initialCategories
    /\ categories[Len(categories)] = task.category

\* C15: createPersonnel with a name, a role or a department that is empty
\* once its blanks are trimmed adds no record and changes none; nothing else
\* changes either.
C15_BlankPersonDeclined ==
  [][\A newPerson \in PersonInputs :
       (/\ \E field \in {newPerson.name, newPerson.role, newPerson.department} :
             \A i \in DOMAIN field : field[i] = " "
        /\ handleAddPerson(newPerson)) =>
         /\ personnel' = personnel
         /\ UNCHANGED <<tasks, categories>>]_vars

\* A person was added, and after that an input with a blank field was declined.
C15_Witness ==
  /\ event = Checked("PersonnelManager", TRUE)
  /\ Len(personnel) = Len(initialPersonnel) + 1
  /\ SubSeq(personnel, 1, Len(initialPersonnel)) = initialPersonnel

\* C16: toggleActive(personnelId) negates the active flag of the person with
\* that id and changes nothing else: the other persons, the other fields of
\* that person and every task (its assignedTo included) are as they were; with
\* an unknown id the personnel collection is unchanged; applied twice to the
\* same id it gives back the collection it started from.
C16_ToggleNegatesOneFlag ==
  [][\A personId \in PersonTargets :
       (/\ UNCHANGED <<tasks, categories, showTaskForm, editingTask, selectedTask,
                       showTaskDetail, now, nextId>>
        /\ handleToggleActive(personId)) =>
         /\ Len(personnel') = Len(personnel)
         /\ \A i \in DOMAIN personnel :
              /\ personnel'[i].active =
                   (IF personnel[i].id = personId THEN ~personnel[i].active
                    ELSE personnel[i].active)
              /\ \A f \in DOMAIN personnel[i] \ {"active"} :
                   personnel'[i][f] = personnel[i][f]
         /\ (personId \notin PersonIds => personnel' = personnel)
         /\ UNCHANGED <<tasks, categories>>
         /\ Toggled(personnel', personId) = personnel]_vars

\* A person of the seed who was active is inactive and still assigned to the
\* task assigned to them in the seed.
C16_Witness ==
  \E i \in DOMAIN personnel, task \in Range(tasks) :
    /\ i \in DOMAIN initialPersonnel
    /\ initialPersonnel[i].active /\ ~personnel[i].active
    /\ personnel[i].id = initialPersonnel[i].id
    /\ \E k \in DOMAIN task.assignedTo : task.assignedTo[k] = personnel[i].id

-----------------------------------------------------------------------------
(* Properties of the filtered view *)

\* Two characters that are the same letter, whatever their case
SameLetter(a, b) ==
  \/ a = b
  \/ a \in DOMAIN LowerOf /\ LowerOf[a] = b
  \/ b \in DOMAIN LowerOf /\ LowerOf[b] = a

\* term is a case-insensitive substring of text
OccursIn(term, text) ==
  \E at \in 0 .. (Len(text) - Len(term)) :
    \A k \in 1 .. Len(term) : SameLetter(text[at + k], term[k])

\* The five predicates of the criteria c
SearchOk(task, c) ==
  c.searchTerm = <<>> \/ OccursIn(c.searchTerm, task.title)
    \/ OccursIn(c.searchTerm, task.description)

StatusOk(task, c) == c.statusFilter = "all" \/ task.status = c.statusFilter

PriorityOk(task, c) == c.priorityFilter = "all" \/ task.priority = c.priorityFilter

CategoryOk(task, c) == c.categoryFilter = AllText \/ task.category = c.categoryFilter

PersonnelOk(task, c) ==
  \/ c.personnelFilter = "all"
  \/ c.personnelFilter = "unassigned" /\ task.assignedTo = <<>>
  \/ /\ c.personnelFilter \notin {"all", "unassigned"}
     /\ \E k \in DOMAIN task.assignedTo : task.assignedTo[k] = c.personnelFilter

\* The criteria that filter nothing
NoCriteria ==
  [searchTerm |-> <<>>, statusFilter |-> "all", priorityFilter |-> "all",
   categoryFilter |-> AllText, personnelFilter |-> "all"]

\* The criterion of one field of c, alone
Only(c, field) == [NoCriteria EXCEPT ![field] = c[field]]

\* C17: the filtered view is the tasks that satisfy the five predicates
\* together, in the order of the task list; the tasks in it are those in the
\* result of every field's criterion applied alone; and a change of the
\* personnel collection alone leaves it as it was.
C17_FilterIsConjunction ==
  /\ [](/\ filteredTasks =
             SelectSeq(tasks, LAMBDA task :
               /\ SearchOk(task, Criteria) /\ StatusOk(task, Criteria)
               /\ PriorityOk(task, Criteria) /\ CategoryOk(task, Criteria)
               /\ PersonnelOk(task, Criteria))
        /\ \A task \in Range(tasks) :
             task \in Range(filteredTasks) <=>
               \A field \in DOMAIN Criteria :
                 task \in Range(Filtered(tasks, Only(Criteria, field))))
  /\ [][UNCHANGED <<tasks, filters>> => filteredTasks' = filteredTasks]_vars

\* All five criteria are set, a person of the seed has been switched, and
\* the view holds some of the tasks and not all.
C17_Witness ==
  /\ searchTerm # <<>> /\ statusFilter # "all" /\ priorityFilter # "all"
  /\ categoryFilter # AllText /\ personnelFilter \notin {"all", "unassigned"}
  /\ personnel # initialPersonnel
  /\ filteredTasks # <<>> /\ Len(filteredTasks) < Len(tasks)

\* C18: filtering the filtered view again with the same criteria gives the
\* same tasks in the same order.
C18_FilterIdempotent ==
  Filtered(filteredTasks, Criteria) = filteredTasks

\* A filter is set and the view holds some of the tasks and not all.
C18_Witness ==
  /\ Criteria # NoCriteria
  /\ Len(filteredTasks) >= 2 /\ Len(filteredTasks) < Len(tasks)

-----------------------------------------------------------------------------
(* Properties of the dashboard metrics *)

\* The number of tasks of the collection with the status
CountOf(status) == Cardinality({i \in DOMAIN tasks : tasks[i].status = status})

\* C19: completionRate is at least 0 and at most 100; it is
\* 100 * completed / total when there is a task, and 0 when there is none.
C19_CompletionRate ==
  LET rate == stats.completionRate
  IN  /\ rate.den > 0
      /\ 0 <= rate.num /\ rate.num <= 100 * rate.den
      /\ (Len(tasks) > 0 =>
            rate.num * Len(tasks) = 100 * CountOf("completed") * rate.den)
      /\ (Len(tasks) = 0 => rate.num = 0)

\* A task was completed in this session, and some tasks are completed and
\* some are not.
C19_Witness ==
  /\ \E task \in Range(tasks) : Completed(task) /\ task.completedAt \in Times
  /\ steps > 0
  /\ 0 < CountOf("completed") /\ CountOf("completed") < Len(tasks)
  /\ stats.completionRate.num * 3 = 200 * stats.completionRate.den

\* C20: efficiency is 100 when no task is active, whatever the number of
\* completed tasks; with an active task it is an integer from 0 to 100 nearest
\* to 100 * completed / (completed + active): 67 for 1 active and 2 completed,
\* 0 for no completed task.
C20_Efficiency ==
  LET active == CountOf("active")
      completed == CountOf("completed")
      started == completed + active
  IN  /\ (active = 0 => efficiency = 100)
      /\ (active > 0 =>
            /\ efficiency \in 0 .. 100
            /\ 2 * (efficiency * started - 100 * completed) <= started
            /\ 2 * (100 * completed - efficiency * started) <= started)
      /\ (active = 1 /\ completed = 2 => efficiency = 67)
      /\ (active > 0 /\ completed = 0 => efficiency = 0)

\* One task is active and two are completed, one of them completed in this
\* session.
C20_Witness ==
  /\ CountOf("active") = 1 /\ CountOf("completed") = 2
  /\ \E task \in Range(tasks) : Completed(task) /\ task.completedAt \in Times
  /\ efficiency = 67

-----------------------------------------------------------------------------
(* Properties of the derived values *)

\* The duration derived from a task at the time dateNow, <<>> where it is
\* undefined
DerivedDuration(task, dateNow) ==
  IF task.status = "completed" /\ task.activatedAt # Absent
       /\ task.completedAt # Absent
    THEN <<task.completedAt - task.activatedAt>>
    ELSE IF task.status = "active" /\ task.activatedAt # Absent
      THEN <<dateNow - task.activatedAt>>
      ELSE <<>>

\* n tenths of an hour is the tenth nearest to the duration d
NearestTenth(n, d) ==
  /\ 2 * (n * HourMs - 10 * d) <= HourMs
  /\ 2 * (10 * d - n * HourMs) <= HourMs

\* C23: the duration the card and the dialog show is completedAt - activatedAt
\* for a completed task holding both, now - activatedAt for an active task
\* holding activatedAt, and in every other case there is none: the dialog
\* shows nothing and the card shows the estimated hours.
C23_DerivedDuration ==
  \A i \in DOMAIN tasks :
    LET task == tasks[i]
        d == DerivedDuration(task, now)
        card == durationInfo(task, now)
        detail == calculateDuration(task, now)
    IN IF d = <<>>
         THEN /\ card = [halves |-> task.estimatedHours, text |-> "h estimadas"]
              /\ detail = <<>>
         ELSE /\ card.text = (IF Completed(task) THEN "h completada"
                                                 ELSE "h transcurridas")
              /\ NearestTenth(card.tenths, d[1])
              /\ detail # <<>>
              /\ detail[1].hours * HourMs * 15 + detail[1].minutes * 1 = d[1] * 15
              /\ detail[1].minutes \in 0..59
              /\ detail[1].text = (IF Completed(task) THEN "h m"
                                                      ELSE "h m (en curso)")

\* An active task started a while ago, beside an active task and a completed
\* one that hold no activation time and a completed one that holds both
C23_Witness ==
  /\ \E i \in DOMAIN tasks :
       /\ tasks[i].status = "active"
       /\ tasks[i].activatedAt # Absent
       /\ now > tasks[i].activatedAt
  /\ \E i \in DOMAIN tasks :
       tasks[i].status = "active" /\ tasks[i].activatedAt = Absent
  /\ \E i \in DOMAIN tasks :
       tasks[i].status = "completed" /\ tasks[i].activatedAt = Absent
  /\ \E i \in DOMAIN tasks :
       /\ tasks[i].status = "completed"
       /\ tasks[i].activatedAt # Absent
       /\ tasks[i].completedAt # Absent

\* The snapshots of tasks the state holds beside the collection
Snapshots == Range(selectedTask) \cup Range(editingTask)

\* C24 as stated: once a paused task is active again, its activatedAt is the
\* time of this activation and no earlier activation time of it is recorded
\* anywhere in the state.
C24_FirstActivationForgotten ==
  \A task \in Range(tasks) :
    (task.status = "active" /\ task.activatedAt # Absent) =>
      \A s \in Snapshots :
        (s.id = task.id /\ s.activatedAt # Absent) =>
          s.activatedAt = task.activatedAt

\* C24: when a paused task is made active again, the collection held no
\* activation time of it before the step and holds the time of this
\* activation after it.  (The snapshot kept for the closed detail dialog is
\* not covered: it may still carry the earlier time.)
C24_LatestActivationStored ==
  [][\A id \in TaskIds :
       (/\ id \in {tasks'[i].id : i \in DOMAIN tasks'}
        /\ hist[id].paused
        /\ TaskById(id)'.status = "active") =>
         /\ TaskById(id).activatedAt = Absent
         /\ TaskById(id)'.activatedAt = now
         /\ \A task \in Range(tasks') :
              task.id = id => task.activatedAt = now]_vars

\* A task started, looked at in the dialog, paused there and started again
\* later: the collection holds the second time, the snapshot the first.
C24_Witness ==
  \E task \in Range(tasks) :
    /\ task.status = "active"
    /\ task.activatedAt \in Times
    /\ \E s \in Range(selectedTask) :
         /\ s.id = task.id
         /\ s.status = "active"
         /\ s.activatedAt \in Times
         /\ s.activatedAt < task.activatedAt

-----------------------------------------------------------------------------
(* Properties of the references between tasks, personnel and categories *)

\* C25: a task created through the form is assigned only personnel whose
\* active flag is true when it is created, each of them once, whatever
\* personnel were added or switched before.
C25_CreatedWithActivePersonnel ==
  [][(showTaskForm /\ editingTask = <<>>) =>
       \A task \in Range(tasks') :
         task.id \notin TaskIds =>
           /\ Range(task.assignedTo) \subseteq
                {personnel[i].id : i \in {j \in DOMAIN personnel : personnel[j].active}}
           /\ \A k, l \in DOMAIN task.assignedTo :
                task.assignedTo[k] = task.assignedTo[l] => k = l]_vars

\* A task was created with two persons assigned, one of them inactive when
\* the application was mounted.
C25_Witness ==
  \E task \in Range(tasks) :
    /\ task.id \in Range(NewIds)
    /\ task.assignedTo = <<"3", "5">>

\* C26: through the rendered controls the status of a task determines which
\* of its timestamps are present: none when it is pending, activatedAt alone
\* when it is active, both when it is completed.
C26_TimestampsFollowStatus ==
  \A task \in Range(tasks) :
    /\ task.status = "pending" =>
         task.activatedAt = Absent /\ task.completedAt = Absent
    /\ task.status = "active" =>
         task.activatedAt # Absent /\ task.completedAt = Absent
    /\ task.status = "completed" =>
         task.activatedAt # Absent /\ task.completedAt # Absent

\* A task made with the form and started since, beside a task started and
\* completed in this session and a task still pending.
C26_Witness ==
  /\ \E task \in Range(tasks) :
       /\ task.id \in Range(NewIds)
       /\ task.status = "active" /\ task.activatedAt \in Times
  /\ \E task \in Range(tasks) :
       /\ task.status = "completed"
       /\ task.activatedAt \in Times /\ task.completedAt \in Times
  /\ \E task \in Range(tasks) : task.status = "pending"

\* C27: while the clock never goes back and the status of tasks changes by
\* setStatus alone, a completed task that holds both timestamps was created
\* no later than it was activated and activated no later than it was
\* completed: the duration derived from it is not negative.
C27_TimestampsInOrder ==
  \A task \in Range(tasks) :
    (Completed(task) /\ task.activatedAt # Absent /\ task.completedAt # Absent) =>
      /\ task.createdAt <= task.activatedAt
      /\ task.activatedAt <= task.completedAt
      /\ DerivedDuration(task, now)[1] >= 0
      /\ durationInfo(task, now).tenths >= 0
      /\ calculateDuration(task, now)[1].hours >= 0

\* A task created in this session was started later and completed later
\* still.
C27_Witness ==
  \E task \in Range(tasks) :
    /\ task.id \in Range(NewIds)
    /\ Completed(task)
    /\ task.createdAt < task.activatedAt
    /\ task.activatedAt < task.completedAt

\* C28: while tasks are created, edited and deleted, the category of every
\* task is an entry of the registry, no entry occurs twice, and no step
\* removes or moves an entry.
C28_CategoriesRegistered ==
  /\ [](/\ \A task \in Range(tasks) : Includes(categories, task.category)
        /\ \A k, l \in DOMAIN categories : categories[k] = categories[l] => k = l)
  /\ [][/\ Len(categories') >= Len(categories)
        /\ SubSeq(categories', 1, Len(categories)) = categories]_vars

\* A category came with a new task and a task of the mounted application was
\* deleted: the registry has grown.
C28_Witness ==
  /\ Len(categories) > Len(initialCategories)
  /\ \E task \in Range(tasks) :
       /\ task.id \in Range(NewIds)
       /\ task.category = categories[Len(categories)]
  /\ \E id \in SeedIds : id \notin TaskIds

\* C29: no step removes a personnel record or changes its id, so through the
\* rendered controls every id a task carries in assignedTo is the id of a
\* personnel record, active or not, and the assigned personnel resolved for
\* the card and the dialog are one record per id, in the order of assignedTo.
C29_AssignedPersonnelResolve ==
  /\ [](\A task \in Range(tasks) :
          /\ \A k \in DOMAIN task.assignedTo :
               \E i \in DOMAIN personnel : personnel[i].id = task.assignedTo[k]
          /\ Len(assignedPersonnel(task)) = Len(task.assignedTo)
          /\ \A k \in DOMAIN task.assignedTo :
               /\ assignedPersonnel(task)[k].id = task.assignedTo[k]
               /\ \E i \in DOMAIN personnel : personnel[i] = assignedPersonnel(task)[k])
  /\ [][/\ Len(personnel') >= Len(personnel)
        /\ \A i \in DOMAIN personnel : personnel'[i].id = personnel[i].id]_vars

\* A person was added, a task was made with the form for a person switched
\* on in this session, and that person was switched off again.
C29_Witness ==
  /\ Len(personnel) > Len(initialPersonnel)
  /\ \E task \in Range(tasks) :
       /\ task.id \in Range(NewIds)
       /\ Includes(task.assignedTo, "5")
       /\ \E k \in DOMAIN assignedPersonnel(task) :
            assignedPersonnel(task)[k].id = "5" /\ ~assignedPersonnel(task)[k].active

-----------------------------------------------------------------------------
(* Properties of the detail dialog *)

\* C30: while the detail dialog is open a task is selected, the collection
\* holds a task of its id and the snapshot shown is that task, field for
\* field; a step taken in the open dialog that changes the collection or
\* opens the form closes the dialog, and a step that deletes the selected
\* task clears the selection.
C30_DialogShowsStoredTask ==
  /\ [](showTaskDetail =>
          /\ selectedTask # <<>>
          /\ selectedTask[1].id \in TaskIds
          /\ TaskById(selectedTask[1].id) = selectedTask[1])
  /\ [][/\ (showTaskDetail /\ (tasks' # tasks \/ showTaskForm')) => ~showTaskDetail'
        /\ (/\ selectedTask # <<>>
            /\ selectedTask[1].id \in TaskIds
            /\ selectedTask[1].id \notin {tasks'[i].id : i \in DOMAIN tasks'}) =>
             selectedTask' = <<>> /\ ~showTaskDetail']_vars

\* The dialog is closed and the task it was opened on has been started
\* since: the snapshot kept is no longer the stored task.
C30_Witness ==
  /\ ~showTaskDetail
  /\ selectedTask # <<>>
  /\ selectedTask[1].status = "pending"
  /\ selectedTask[1].id \in TaskIds
  /\ TaskById(selectedTask[1].id).status = "active"
  /\ TaskById(selectedTask[1].id).activatedAt \in Times

-----------------------------------------------------------------------------
(* Properties of what is rendered *)

\* C21: after every use of a control, be it one that changes the tasks or
\* the personnel or one that changes a filter, the list on the screen is the
\* filter applied to the tasks and criteria of the state, its cards are the
\* cards of that list, and the numbers of the dashboard, while it is shown,
\* are the metrics of the tasks and personnel of the state.
C21_ViewsAreCurrent ==
  /\ rendered.filteredTasks # <<>>
  /\ rendered.filteredTasks[1].value = Filtered(tasks, Criteria)
  /\ (~showTaskForm /\ activeTab = "tasks") =>
       DOMAIN rendered.durationInfo =
         {Filtered(tasks, Criteria)[i].id : i \in DOMAIN Filtered(tasks, Criteria)}
  /\ (~showTaskForm /\ activeTab = "dashboard") =>
       /\ rendered.stats # <<>> /\ rendered.metrics # <<>>
       /\ rendered.stats[1].value = stats
       /\ rendered.metrics[1].value.efficiency = efficiency

\* The dashboard is shown again after a task was started and the list was
\* narrowed to the active tasks: it counts one active task, and the list
\* holds that task alone.
C21_Witness ==
  /\ ~showTaskForm /\ activeTab = "dashboard"
  /\ rendered.stats # <<>> /\ rendered.stats[1].value.activeTasks = 1
  /\ statusFilter = "active"
  /\ Len(rendered.filteredTasks[1].value) = 1
  /\ rendered.filteredTasks[1].value[1].activatedAt \in Times

\* C22 as stated: whenever an active task that holds activatedAt is on the
\* screen after a render made at the time t, the duration its card shows and
\* the duration the open detail dialog shows are those computed from
\* t - activatedAt.
C22_DurationFreshAtRender ==
  /\ \A id \in DOMAIN rendered.durationInfo :
       \A task \in Range(rendered.filteredTasks[1].value) :
         (task.id = id /\ task.status = "active" /\ task.activatedAt # Absent) =>
           rendered.durationInfo[id][1].value = durationInfo(task, rendered.at)
  /\ (/\ rendered.calculateDuration # <<>>
      /\ selectedTask[1].status = "active"
      /\ selectedTask[1].activatedAt # Absent) =>
       rendered.calculateDuration[1] = calculateDuration(selectedTask[1], rendered.at)

=============================================================================
